---- MODULE Spec2Model ----
(***************************************************************************)
(* Fixed-capacity lock-free ring buffers (SPSC, MPSC, SPMC, MPMC) and the  *)
(* task executor built on the MPMC unicast ring.                           *)
(*                                                                         *)
(* Every atomic load, store, compare-exchange and every slot access of the *)
(* source is one step of the thread that performs it, so that all          *)
(* interleavings of the threads' memory accesses are explored.  Memory is  *)
(* sequentially consistent in this model: every behaviour found here is a  *)
(* behaviour of the C++ program, which additionally admits weaker ones.    *)
(***************************************************************************)
EXTENDS Integers, Sequences, FiniteSets, TLC

(***************************************************************************)
(* Bounds of the model.                                                    *)
(***************************************************************************)
\* log2 of the ring capacity (BufSize is a power of two, at least 2)
LogBufSize == 1
\* number of push calls started in one run
MaxPush == 3
\* number of push_overwrite calls started in one run: enough for a reader to
\* be lapped and then overtaken once more
MaxOverwrite == MaxPush + 1
\* number of pops one reader takes back with fetch_sub_read_pos in one run
MaxRewind == 1
\* log2 of UPDATE_INTERVAL, the refresh period of the cached minimum in the
\* SPMC revision that has one (64 in the source; only that it is a power of
\* two and smaller than the ring matters)
LogUpdateInterval == 1
\* number of producer threads of the multi-producer rings
NumProducers == 2
\* number of consumer threads (reader ids of the broadcast rings)
NumConsumers == 2
\* number of threads that call threadpool::submit
NumSubmitters == 1
\* width of size_t in the model (64 in the build); indices stay far below
SizeBits == 8

BufSize == 2 ^ LogBufSize
MASK == BufSize - 1
SizeMod == 2 ^ SizeBits
SIZE_MAX == SizeMod - 1
UPDATE_INTERVAL == 2 ^ LogUpdateInterval
\* largest capacity tried by the bitmask test
MaxCapacity == 16
\* the smallest ring the UPDATE_INTERVAL revision admits:
\* requires(BufSize > UPDATE_INTERVAL) and a power of two
IntervalBufSize == 2 * UPDATE_INTERVAL
\* number of push calls on that ring in one run: the ring is filled, found
\* full and retried
MaxPushInterval == IntervalBufSize + 3

(***************************************************************************)
(* size_t arithmetic                                                       *)
(***************************************************************************)
USub(a, b) == (a - b + SizeMod) % SizeMod
UAdd(a, b) == (a + b) % SizeMod

RECURSIVE BitAnd(_, _)
BitAnd(a, b) ==
    IF a = 0 \/ b = 0 THEN 0
    ELSE (a % 2) * (b % 2) + 2 * BitAnd(a \div 2, b \div 2)

\* buffer_[i & MASK]
Slot(i) == BitAnd(i, MASK)

(***************************************************************************)
(* Threads.  Ring threads call push / pop directly; pool threads are the   *)
(* submitters and workers of the task executor, whose ring operations      *)
(* return into submit() and worker().                                      *)
(***************************************************************************)
Producers == 1 .. NumProducers
Consumers == (NumProducers + 1) .. (NumProducers + NumConsumers)
\* the single producer / single consumer of the single-sided rings
TheProducer == 1
TheConsumer == NumProducers + 1
\* reader id in [0, MaxReaders) used by a consumer thread of a broadcast ring
ReaderId(c) == c - NumProducers - 1
MaxReaders == NumConsumers
ReaderIds == 0 .. (MaxReaders - 1)
\* threadpool<PoolSize, QueueSize>: tasks_ is MPMC<Task, PoolSize, 1024, unicast>
PoolSize == BufSize
PoolBase == NumProducers + NumConsumers
Submitters == (PoolBase + 1) .. (PoolBase + NumSubmitters)
Workers == (PoolBase + NumSubmitters + 1) .. (PoolBase + NumSubmitters + PoolSize)
Threads == Producers \cup Consumers \cup Submitters \cup Workers

VARIABLES
    buffer,           \* buffer_ : slot -> element (0 is the value-initialised T{})
    write_pos,        \* write_pos_
    read_pos,         \* read_pos_ (single read index)
    read_positions,   \* read_positions_ : reader id -> index (broadcast rings)
    min_read_cache,   \* min_read_cache_ (SPMC broadcast)
    pc,               \* thread -> position in the code it executes
    current_write,    \* thread -> local current_write
    current_read,     \* thread -> local current_read
    min_reader_index, \* thread -> local fresh_min / min_reader_index of the scan
    scan_i,           \* thread -> loop variable i of the scan
    arg,              \* thread -> the value u passed to push / the element read
    ret,              \* thread -> result of the thread's last completed call
    nextVal,          \* ghost: number of push calls started (values are 1, 2, ...)
    accepted,         \* ghost: values of the pushes that took an index, by index
    written,          \* ghost: indices whose slot store has completed
    popped,           \* ghost: thread -> sequence of [idx, val, wr] its pops returned
    stopping_,        \* threadpool::stopping_
    stop_requested,   \* worker -> stop requested on its jthread's stop token
    draining,         \* worker -> it has left the main loop of worker()
    tasks_alive,      \* ghost: tasks_ (and stopping_) not yet destroyed
    dtor,             \* position of the thread running ~threadpool
    future,           \* task -> state of its completion handle
    executed,         \* ghost: task -> number of times its function ran
    returned,         \* ghost: tasks whose submit call has returned
    beforeStop,       \* ghost: tasks whose submit had returned when stop was signalled
    ring,             \* the ring class under test (multi-ring specifications)
    sawFull,          \* ghost: thread -> the ring held BufSize items during its push call
    overwrites,       \* ghost: the indices taken by push_overwrite
    rewinds,          \* ghost: thread -> numbers of its pops that it took back
    threw,            \* ghost: the tasks whose function threw
    local_write_,     \* SPSC, local-index revision: the producer's own copy of its index
    local_read_,      \* SPSC, local-index revision: the consumer's own copy of its index
    test_i,           \* bitmask test: the loop index i
    test_masked       \* bitmask test: the value of i & mask

bcastVars == <<read_positions, min_read_cache, min_reader_index, scan_i>>
poolVars == <<stopping_, stop_requested, draining, tasks_alive, dtor, future, executed,
              returned, beforeStop>>
localVars == <<local_write_, local_read_>>
maskVars == <<test_i, test_masked>>
histVars == <<ring, sawFull, overwrites, rewinds, threw, localVars, maskVars>>
vars == <<buffer, write_pos, read_pos, pc, current_write, current_read,
          arg, ret, nextVal, accepted, written, popped, bcastVars, poolVars,
          histVars>>

\* result of a call: push -> ok = true/false; pop -> ok = has_value, val = *opt
NoResult == [ok |-> FALSE, val |-> 0]
Some(v) == [ok |-> TRUE, val |-> v]

\* where a ring operation called by thread t returns to
ReturnPc(t) ==
    IF t \in Submitters THEN "submit_pushed"
    ELSE IF t \in Workers
         THEN (IF draining[t] THEN "worker_drain_popped" ELSE "worker_popped")
    ELSE "idle"

\* content of a slot after std::move(buffer_[i]) took element v out of it:
\* an int is copied; a moved-from std::function (pool threads) is left empty
MovedFrom(t, v) == IF t \in Workers THEN 0 ELSE v

Tasks == 1 .. MaxPush

\* State after construction: buffer_{} value-initialised, all indices 0.
InitMembersOfSize(n) ==
    /\ buffer = [s \in 0 .. (n - 1) |-> 0]
    /\ write_pos = 0
    /\ read_pos = 0
    /\ read_positions = [r \in ReaderIds |-> 0]
    /\ min_read_cache = 0
    /\ pc = [t \in Threads |-> "idle"]
    /\ current_write = [t \in Threads |-> 0]
    /\ current_read = [t \in Threads |-> 0]
    /\ min_reader_index = [t \in Threads |-> 0]
    /\ scan_i = [t \in Threads |-> 0]
    /\ arg = [t \in Threads |-> 0]
    /\ ret = [t \in Threads |-> NoResult]
    /\ nextVal = 0
    /\ accepted = << >>
    /\ written = {}
    /\ popped = [t \in Threads |-> << >>]
    /\ stopping_ = FALSE
    /\ stop_requested = [w \in Workers |-> FALSE]
    /\ draining = [w \in Workers |-> FALSE]
    /\ tasks_alive = TRUE
    /\ dtor = "live"
    /\ future = [k \in Tasks |-> "none"]
    /\ executed = [k \in Tasks |-> 0]
    /\ returned = {}
    /\ beforeStop = {}
    /\ sawFull = [t \in Threads |-> FALSE]
    /\ overwrites = {}
    /\ rewinds = [t \in Threads |-> {}]
    /\ threw = {}
    /\ local_write_ = 0
    /\ local_read_ = 0
    /\ test_i = 0
    /\ test_masked = 0

\* the members of a ring of BufSize slots
InitMembers == InitMembersOfSize(BufSize)

\* a specification of one ring class does not use ring
InitRing == InitMembers /\ ring = "-"

\* thread t is about to call an operation (it is between calls)
Calls(t) == pc[t] = "idle"

\* thread t of the ring threads S calls the operation anew, or t is at the
\* top of the operation's retry loop
CallsOrRetries(t, S, loop) == (Calls(t) /\ t \in S) \/ pc[t] = loop

\* a local variable of thread t after the operation has returned
OutOfScope(f, t) == [f EXCEPT ![t] = 0]

\* the ring holds BufSize claimed and unconsumed items when the write index is w
RingFull(w) == USub(w, read_pos) >= BufSize

\* thread u is inside a push call of a multi-producer unicast ring and has
\* not yet taken an index
InPush(u) ==
    pc[u] \in {"mpsc_push_loop", "mpsc_push_load_read", "mpsc_push_cas",
              "mpmcu_push_loop", "mpmcu_push_load_read", "mpmcu_push_cas"}

\* ghost record of a pop that obtained value v for index i
PopEntry(i, v) == [idx |-> i, val |-> v, wr |-> i \in written]

(***************************************************************************)
(* SPSC ring                                                               *)
(***************************************************************************)
\* push: the call with a fresh value, and the relaxed load of write_pos_
SPSC_push_load_write(t) ==
    /\ pc[t] = "idle"
    /\ nextVal < MaxPush
    /\ nextVal' = nextVal + 1
    /\ arg' = [arg EXCEPT ![t] = nextVal + 1]
    /\ current_write' = [current_write EXCEPT ![t] = write_pos]
    /\ pc' = [pc EXCEPT ![t] = "spsc_push_load_read"]
    /\ UNCHANGED <<buffer, write_pos, read_pos, current_read, ret, accepted,
                   written, popped, bcastVars, poolVars, histVars>>

\* mutant of the full check: > instead of >= (admits a push into a full ring)
SPSC_push_load_read_FullOffByOne(t) ==
    /\ pc[t] = "spsc_push_load_read"
    /\ current_read' = [current_read EXCEPT ![t] = read_pos]
    /\ IF current_write[t] > UAdd(read_pos, BufSize)
       THEN /\ pc' = [pc EXCEPT ![t] = "idle"]
            /\ ret' = [ret EXCEPT ![t] = NoResult]
       ELSE /\ pc' = [pc EXCEPT ![t] = "spsc_push_write_slot"]
            /\ ret' = ret
    /\ UNCHANGED <<buffer, write_pos, read_pos, current_write, arg, nextVal,
                   accepted, written, popped, bcastVars, poolVars, histVars>>
\* push as it would be if the value were stored in the slot before the full check
SPSC_push_load_read_StoresBeforeCheck(t) ==
    /\ pc[t] = "spsc_push_load_read"
    /\ current_read' = [current_read EXCEPT ![t] = read_pos]
    /\ IF current_write[t] >= UAdd(read_pos, BufSize)
       THEN /\ pc' = [pc EXCEPT ![t] = "idle"]
            /\ ret' = [ret EXCEPT ![t] = NoResult]
       ELSE /\ pc' = [pc EXCEPT ![t] = "spsc_push_write_slot"]
            /\ ret' = ret
    /\ buffer' = [buffer EXCEPT ![Slot(current_write[t])] = arg[t]]
    /\ UNCHANGED <<write_pos, read_pos, current_write, arg, nextVal,
                   accepted, written, popped, bcastVars, poolVars, histVars>>
\* push: acquire load of read_pos_ and the full check
SPSC_push_load_read(t) ==
    /\ pc[t] = "spsc_push_load_read"
    /\ current_read' = [current_read EXCEPT ![t] = read_pos]
    /\ IF current_write[t] >= UAdd(read_pos, BufSize)
       THEN /\ pc' = [pc EXCEPT ![t] = "idle"]
            /\ ret' = [ret EXCEPT ![t] = NoResult]
       ELSE /\ pc' = [pc EXCEPT ![t] = "spsc_push_write_slot"]
            /\ ret' = ret
    /\ UNCHANGED <<buffer, write_pos, read_pos, current_write, arg, nextVal,
                   accepted, written, popped, bcastVars, poolVars, histVars>>

\* mutant of the slot store: the value goes into the slot after the reserved one
SPSC_push_write_slot_NextSlot(t) ==
    /\ pc[t] = "spsc_push_write_slot"
    /\ buffer' = [buffer EXCEPT ![Slot(UAdd(current_write[t], 1))] = arg[t]]
    /\ written' = written \cup {current_write[t]}
    /\ pc' = [pc EXCEPT ![t] = "spsc_push_store_write"]
    /\ UNCHANGED <<write_pos, read_pos, current_write, current_read, arg, ret,
                   nextVal, accepted, popped, bcastVars, poolVars, histVars>>

\* push: buffer_[current_write & MASK] = u
SPSC_push_write_slot(t) ==
    /\ pc[t] = "spsc_push_write_slot"
    /\ buffer' = [buffer EXCEPT ![Slot(current_write[t])] = arg[t]]
    /\ written' = written \cup {current_write[t]}
    /\ pc' = [pc EXCEPT ![t] = "spsc_push_store_write"]
    /\ UNCHANGED <<write_pos, read_pos, current_write, current_read, arg, ret,
                   nextVal, accepted, popped, bcastVars, poolVars, histVars>>

\* push: release store of write_pos_ and return true
SPSC_push_store_write(t) ==
    /\ pc[t] = "spsc_push_store_write"
    /\ write_pos' = UAdd(current_write[t], 1)
    /\ accepted' = Append(accepted, arg[t])
    /\ ret' = [ret EXCEPT ![t] = Some(arg[t])]
    /\ pc' = [pc EXCEPT ![t] = "idle"]
    /\ UNCHANGED <<buffer, read_pos, current_write, current_read, arg,
                   nextVal, written, popped, bcastVars, poolVars, histVars>>

\* pop: relaxed load of read_pos_
SPSC_pop_load_read(t) ==
    /\ pc[t] = "idle"
    /\ current_read' = [current_read EXCEPT ![t] = read_pos]
    /\ pc' = [pc EXCEPT ![t] = "spsc_pop_load_write"]
    /\ UNCHANGED <<buffer, write_pos, read_pos, current_write, arg, ret,
                   nextVal, accepted, written, popped, bcastVars, poolVars,
                   histVars>>

\* mutant of the empty check: > instead of >= (pops from an empty ring)
SPSC_pop_load_write_EmptyOffByOne(t) ==
    /\ pc[t] = "spsc_pop_load_write"
    /\ current_write' = [current_write EXCEPT ![t] = write_pos]
    /\ IF current_read[t] > write_pos
       THEN /\ pc' = [pc EXCEPT ![t] = "idle"]
            /\ ret' = [ret EXCEPT ![t] = NoResult]
       ELSE /\ pc' = [pc EXCEPT ![t] = "spsc_pop_move_slot"]
            /\ ret' = ret
    /\ UNCHANGED <<buffer, write_pos, read_pos, current_read, arg, nextVal,
                   accepted, written, popped, bcastVars, poolVars, histVars>>

\* pop: acquire load of write_pos_ and the empty check
SPSC_pop_load_write(t) ==
    /\ pc[t] = "spsc_pop_load_write"
    /\ current_write' = [current_write EXCEPT ![t] = write_pos]
    /\ IF current_read[t] >= write_pos
       THEN /\ pc' = [pc EXCEPT ![t] = "idle"]
            /\ ret' = [ret EXCEPT ![t] = NoResult]
       ELSE /\ pc' = [pc EXCEPT ![t] = "spsc_pop_move_slot"]
            /\ ret' = ret
    /\ UNCHANGED <<buffer, write_pos, read_pos, current_read, arg, nextVal,
                   accepted, written, popped, bcastVars, poolVars, histVars>>

\* pop: the optional is constructed from std::move(buffer_[current_read & MASK])
SPSC_pop_move_slot(t) ==
    /\ pc[t] = "spsc_pop_move_slot"
    /\ arg' = [arg EXCEPT ![t] = buffer[Slot(current_read[t])]]
    /\ buffer' = [buffer EXCEPT ![Slot(current_read[t])] = MovedFrom(t, @)]
    /\ popped' = [popped EXCEPT ![t] =
                     Append(@, PopEntry(current_read[t], buffer[Slot(current_read[t])]))]
    /\ pc' = [pc EXCEPT ![t] = "spsc_pop_store_read"]
    /\ UNCHANGED <<write_pos, read_pos, current_write, current_read, ret,
                   nextVal, accepted, written, bcastVars, poolVars, histVars>>

\* pop: release store of read_pos_ and return the value
SPSC_pop_store_read(t) ==
    /\ pc[t] = "spsc_pop_store_read"
    /\ read_pos' = UAdd(current_read[t], 1)
    /\ ret' = [ret EXCEPT ![t] = Some(arg[t])]
    /\ pc' = [pc EXCEPT ![t] = "idle"]
    /\ UNCHANGED <<buffer, write_pos, current_write, current_read, arg,
                   nextVal, accepted, written, popped, bcastVars, poolVars,
                   histVars>>

NextSPSC ==
    \/ SPSC_push_load_write(TheProducer)
    \/ SPSC_push_load_read(TheProducer)
    \/ SPSC_push_write_slot(TheProducer)
    \/ SPSC_push_store_write(TheProducer)
    \/ SPSC_pop_load_read(TheConsumer)
    \/ SPSC_pop_load_write(TheConsumer)
    \/ SPSC_pop_move_slot(TheConsumer)
    \/ SPSC_pop_store_read(TheConsumer)

SpecSPSC == InitRing /\ [][NextSPSC]_vars

\* the values a thread's pops obtained, in order
PoppedVals(t) == [i \in 1 .. Len(popped[t]) |-> popped[t][i].val]

IsPrefix(s, q) == Len(s) <= Len(q) /\ \A i \in 1 .. Len(s) : s[i] = q[i]

\* C1: in the SPSC ring the sequence of values returned by successful pops is
\* always a prefix of the sequence of values accepted by successful pushes
\* (same order, nothing lost, nothing duplicated, nothing never pushed).
C1_SPSC_PoppedIsPrefixOfPushed ==
    IsPrefix(PoppedVals(TheConsumer), accepted)

\* C1 witness: the ring has wrapped and the consumer's pop has returned the
\* value of an index stored in a reused slot.
C1_Witness ==
    /\ Len(accepted) > BufSize
    /\ \E i \in 1 .. Len(popped[TheConsumer]) : popped[TheConsumer][i].idx >= BufSize
    /\ pc[TheConsumer] = "idle"
    /\ ret[TheConsumer].ok

(***************************************************************************)
(* SPMC ring, unicast                                                      *)
(* compare_exchange_weak is modelled as failing only on a value mismatch.  *)
(***************************************************************************)
\* push: the call with a fresh value, and the relaxed load of write_pos_
SPMCu_push_load_write(t) ==
    /\ pc[t] = "idle"
    /\ nextVal < MaxPush
    /\ nextVal' = nextVal + 1
    /\ arg' = [arg EXCEPT ![t] = nextVal + 1]
    /\ current_write' = [current_write EXCEPT ![t] = write_pos]
    /\ pc' = [pc EXCEPT ![t] = "spmcu_push_load_read"]
    /\ UNCHANGED <<buffer, write_pos, read_pos, current_read, ret, accepted,
                   written, popped, bcastVars, poolVars, histVars>>

\* push: acquire load of read_pos_ and the full check
SPMCu_push_load_read(t) ==
    /\ pc[t] = "spmcu_push_load_read"
    /\ current_read' = [current_read EXCEPT ![t] = read_pos]
    /\ IF current_write[t] >= UAdd(read_pos, BufSize)
       THEN /\ pc' = [pc EXCEPT ![t] = "idle"]
            /\ ret' = [ret EXCEPT ![t] = NoResult]
       ELSE /\ pc' = [pc EXCEPT ![t] = "spmcu_push_write_slot"]
            /\ ret' = ret
    /\ UNCHANGED <<buffer, write_pos, read_pos, current_write, arg, nextVal,
                   accepted, written, popped, bcastVars, poolVars, histVars>>

\* push: buffer_[current_write & MASK] = u
SPMCu_push_write_slot(t) ==
    /\ pc[t] = "spmcu_push_write_slot"
    /\ buffer' = [buffer EXCEPT ![Slot(current_write[t])] = arg[t]]
    /\ written' = written \cup {current_write[t]}
    /\ pc' = [pc EXCEPT ![t] = "spmcu_push_store_write"]
    /\ UNCHANGED <<write_pos, read_pos, current_write, current_read, arg, ret,
                   nextVal, accepted, popped, bcastVars, poolVars, histVars>>

\* push: release store of write_pos_ and return true
SPMCu_push_store_write(t) ==
    /\ pc[t] = "spmcu_push_store_write"
    /\ write_pos' = UAdd(current_write[t], 1)
    /\ accepted' = Append(accepted, arg[t])
    /\ ret' = [ret EXCEPT ![t] = Some(arg[t])]
    /\ pc' = [pc EXCEPT ![t] = "idle"]
    /\ UNCHANGED <<buffer, read_pos, current_write, current_read, arg,
                   nextVal, written, popped, bcastVars, poolVars, histVars>>

\* pop: top of the loop, relaxed load of read_pos_
SPMCu_pop_load_read(t) ==
    /\ pc[t] \in {"idle", "spmcu_pop_loop"}
    /\ current_read' = [current_read EXCEPT ![t] = read_pos]
    /\ pc' = [pc EXCEPT ![t] = "spmcu_pop_load_write"]
    /\ UNCHANGED <<buffer, write_pos, read_pos, current_write, arg, ret,
                   nextVal, accepted, written, popped, bcastVars, poolVars,
                   histVars>>

\* pop: acquire load of write_pos_ and the empty check
SPMCu_pop_load_write(t) ==
    /\ pc[t] = "spmcu_pop_load_write"
    /\ current_write' = [current_write EXCEPT ![t] = write_pos]
    /\ IF current_read[t] >= write_pos
       THEN /\ pc' = [pc EXCEPT ![t] = "idle"]
            /\ ret' = [ret EXCEPT ![t] = NoResult]
       ELSE /\ pc' = [pc EXCEPT ![t] = "spmcu_pop_cas"]
            /\ ret' = ret
    /\ UNCHANGED <<buffer, write_pos, read_pos, current_read, arg, nextVal,
                   accepted, written, popped, bcastVars, poolVars, histVars>>

\* pop: read_pos_.compare_exchange_weak(current_read, current_read + 1);
\* on failure yield and go round the loop
SPMCu_pop_cas(t) ==
    /\ pc[t] = "spmcu_pop_cas"
    /\ IF read_pos = current_read[t]
       THEN /\ read_pos' = UAdd(current_read[t], 1)
            /\ pc' = [pc EXCEPT ![t] = "spmcu_pop_move_slot"]
            /\ current_read' = current_read
       ELSE /\ read_pos' = read_pos
            /\ current_read' = [current_read EXCEPT ![t] = read_pos]
            /\ pc' = [pc EXCEPT ![t] = "spmcu_pop_loop"]
    /\ UNCHANGED <<buffer, write_pos, current_write, arg, ret, nextVal,
                   accepted, written, popped, bcastVars, poolVars, histVars>>

\* pop: return optional{std::move(buffer_[current_read & MASK])}
SPMCu_pop_move_slot(t) ==
    /\ pc[t] = "spmcu_pop_move_slot"
    /\ buffer' = [buffer EXCEPT ![Slot(current_read[t])] = MovedFrom(t, @)]
    /\ ret' = [ret EXCEPT ![t] = Some(buffer[Slot(current_read[t])])]
    /\ popped' = [popped EXCEPT ![t] =
                     Append(@, PopEntry(current_read[t], buffer[Slot(current_read[t])]))]
    /\ pc' = [pc EXCEPT ![t] = "idle"]
    /\ UNCHANGED <<arg, write_pos, read_pos, current_write, current_read,
                   nextVal, accepted, written, bcastVars, poolVars, histVars>>

NextSPMCu ==
    \/ SPMCu_push_load_write(TheProducer)
    \/ SPMCu_push_load_read(TheProducer)
    \/ SPMCu_push_write_slot(TheProducer)
    \/ SPMCu_push_store_write(TheProducer)
    \/ \E c \in Consumers : SPMCu_pop_load_read(c)
    \/ \E c \in Consumers : SPMCu_pop_load_write(c)
    \/ \E c \in Consumers : SPMCu_pop_cas(c)
    \/ \E c \in Consumers : SPMCu_pop_move_slot(c)

SpecSPMCu == InitRing /\ [][NextSPMCu]_vars

\* all pop records of the consumer threads, as (thread, position) pairs
PopRefs == {r \in Consumers \X (1 .. MaxPush) : r[2] <= Len(popped[r[1]])}

\* every pop obtained the value accepted for the index it claimed
PopsMatchClaimedIndex ==
    \A c \in Consumers : \A i \in 1 .. Len(popped[c]) :
        /\ popped[c][i].idx < Len(accepted)
        /\ popped[c][i].val = accepted[popped[c][i].idx + 1]

\* no value (and no index) is returned by two pop calls
NoValueTwice ==
    \A r1, r2 \in PopRefs :
        r1 # r2 =>
            /\ popped[r1[1]][r1[2]].val # popped[r2[1]][r2[2]].val
            /\ popped[r1[1]][r1[2]].idx # popped[r2[1]][r2[2]].idx

\* C2: SPMC unicast, every interleaving: each accepted value is returned by
\* at most one pop call, no pop returns a value twice, and no pop returns a
\* value that belongs to a different index than the one it claimed.
C2_SPMCu_ExactlyOnceAtClaimedIndex ==
    PopsMatchClaimedIndex /\ NoValueTwice

(***************************************************************************)
(* SPMC ring, broadcast: non-overwriting push and pop(id)                  *)
(***************************************************************************)
\* push as it would be if it returned false on the cached minimum alone,
\* without the refresh loop
SPMCb_push_load_write_TrustsCache(t) ==
    /\ pc[t] = "idle"
    /\ nextVal < MaxPush
    /\ nextVal' = nextVal + 1
    /\ arg' = [arg EXCEPT ![t] = nextVal + 1]
    /\ current_write' = [current_write EXCEPT ![t] = write_pos]
    /\ min_reader_index' = [min_reader_index EXCEPT ![t] = SIZE_MAX]
    /\ scan_i' = [scan_i EXCEPT ![t] = 0]
    /\ pc' = [pc EXCEPT ![t] =
                 IF write_pos >= UAdd(min_read_cache, BufSize)
                 THEN "idle" ELSE "spmcb_push_write_slot"]
    /\ ret' = [ret EXCEPT ![t] = IF write_pos >= UAdd(min_read_cache, BufSize)
                                  THEN NoResult ELSE @]
    /\ UNCHANGED <<buffer, write_pos, read_pos, current_read, accepted,
                   written, popped, read_positions, min_read_cache, poolVars,
                   histVars>>
\* push: the call with a fresh value, the relaxed load of write_pos_ and the
\* test of the cached minimum (min_read_cache_ is private to the producer)
SPMCb_push_load_write(t) ==
    /\ pc[t] = "idle"
    /\ nextVal < MaxPush
    /\ nextVal' = nextVal + 1
    /\ arg' = [arg EXCEPT ![t] = nextVal + 1]
    /\ current_write' = [current_write EXCEPT ![t] = write_pos]
    /\ min_reader_index' = [min_reader_index EXCEPT ![t] = SIZE_MAX]
    /\ scan_i' = [scan_i EXCEPT ![t] = 0]
    /\ pc' = [pc EXCEPT ![t] =
                 IF write_pos >= UAdd(min_read_cache, BufSize)
                 THEN "spmcb_push_scan" ELSE "spmcb_push_write_slot"]
    /\ UNCHANGED <<buffer, write_pos, read_pos, current_read, ret, accepted,
                   written, popped, read_positions, min_read_cache, poolVars,
                   histVars>>

\* mutant of the refresh loop: it keeps the largest reader index, not the smallest
SPMCb_push_scan_TakesMax(t) ==
    /\ pc[t] = "spmcb_push_scan"
    /\ scan_i[t] < MaxReaders
    /\ LET reader_index == read_positions[scan_i[t]]
           fresh_min == IF reader_index > min_reader_index[t]
                           \/ min_reader_index[t] = SIZE_MAX
                        THEN reader_index ELSE min_reader_index[t]
       IN /\ min_reader_index' = [min_reader_index EXCEPT ![t] = fresh_min]
          /\ scan_i' = [scan_i EXCEPT ![t] = @ + 1]
          /\ IF scan_i[t] + 1 < MaxReaders
             THEN UNCHANGED <<min_read_cache, pc, ret>>
             ELSE /\ min_read_cache' = fresh_min
                  /\ IF current_write[t] >= UAdd(fresh_min, BufSize)
                     THEN /\ pc' = [pc EXCEPT ![t] = "idle"]
                          /\ ret' = [ret EXCEPT ![t] = NoResult]
                     ELSE /\ pc' = [pc EXCEPT ![t] = "spmcb_push_write_slot"]
                          /\ ret' = ret
    /\ UNCHANGED <<buffer, write_pos, read_pos, current_write, current_read, arg,
                   nextVal, accepted, written, popped, read_positions, poolVars,
                   histVars>>

\* mutant of the refresh loop: a reader whose cursor is still 0 is left out
SPMCb_push_scan_SkipsIdleReaders(t) ==
    /\ pc[t] = "spmcb_push_scan"
    /\ scan_i[t] < MaxReaders
    /\ LET reader_index == read_positions[scan_i[t]]
           fresh_min == IF reader_index # 0 /\ reader_index < min_reader_index[t]
                        THEN reader_index ELSE min_reader_index[t]
       IN /\ min_reader_index' = [min_reader_index EXCEPT ![t] = fresh_min]
          /\ scan_i' = [scan_i EXCEPT ![t] = @ + 1]
          /\ IF scan_i[t] + 1 < MaxReaders
             THEN UNCHANGED <<min_read_cache, pc, ret>>
             ELSE /\ min_read_cache' = fresh_min
                  /\ IF current_write[t] >= UAdd(fresh_min, BufSize)
                     THEN /\ pc' = [pc EXCEPT ![t] = "idle"]
                          /\ ret' = [ret EXCEPT ![t] = NoResult]
                     ELSE /\ pc' = [pc EXCEPT ![t] = "spmcb_push_write_slot"]
                          /\ ret' = ret
    /\ UNCHANGED <<buffer, write_pos, read_pos, current_write, current_read, arg,
                   nextVal, accepted, written, popped, read_positions, poolVars,
                   histVars>>

\* push: one iteration of the refresh loop (acquire load of read_positions_[i]);
\* after the last one min_read_cache_ is stored and fullness is decided
SPMCb_push_scan(t) ==
    /\ pc[t] = "spmcb_push_scan"
    /\ scan_i[t] < MaxReaders
    /\ LET reader_index == read_positions[scan_i[t]]
           fresh_min == IF reader_index < min_reader_index[t]
                        THEN reader_index ELSE min_reader_index[t]
       IN /\ min_reader_index' = [min_reader_index EXCEPT ![t] = fresh_min]
          /\ scan_i' = [scan_i EXCEPT ![t] = @ + 1]
          /\ IF scan_i[t] + 1 < MaxReaders
             THEN UNCHANGED <<min_read_cache, pc, ret>>
             ELSE /\ min_read_cache' = fresh_min
                  /\ IF current_write[t] >= UAdd(fresh_min, BufSize)
                     THEN /\ pc' = [pc EXCEPT ![t] = "idle"]
                          /\ ret' = [ret EXCEPT ![t] = NoResult]
                     ELSE /\ pc' = [pc EXCEPT ![t] = "spmcb_push_write_slot"]
                          /\ ret' = ret
    /\ UNCHANGED <<buffer, write_pos, read_pos, current_write, current_read, arg,
                   nextVal, accepted, written, popped, read_positions, poolVars,
                   histVars>>

\* push: buffer_[current_write & MASK] = u
SPMCb_push_write_slot(t) ==
    /\ pc[t] = "spmcb_push_write_slot"
    /\ buffer' = [buffer EXCEPT ![Slot(current_write[t])] = arg[t]]
    /\ written' = written \cup {current_write[t]}
    /\ pc' = [pc EXCEPT ![t] = "spmcb_push_store_write"]
    /\ UNCHANGED <<write_pos, read_pos, current_write, current_read, arg, ret,
                   nextVal, accepted, popped, bcastVars, poolVars, histVars>>

\* push: release store of write_pos_ and return true
SPMCb_push_store_write(t) ==
    /\ pc[t] = "spmcb_push_store_write"
    /\ write_pos' = UAdd(current_write[t], 1)
    /\ accepted' = Append(accepted, arg[t])
    /\ ret' = [ret EXCEPT ![t] = Some(arg[t])]
    /\ pc' = [pc EXCEPT ![t] = "idle"]
    /\ UNCHANGED <<buffer, read_pos, current_write, current_read, arg,
                   nextVal, written, popped, bcastVars, poolVars, histVars>>

\* pop(consumerId): relaxed load of read_positions_[consumerId]
SPMCb_pop_load_read(t) ==
    /\ pc[t] = "idle"
    /\ current_read' = [current_read EXCEPT ![t] = read_positions[ReaderId(t)]]
    /\ pc' = [pc EXCEPT ![t] = "spmcb_pop_load_write"]
    /\ UNCHANGED <<buffer, write_pos, read_pos, current_write, arg, ret,
                   nextVal, accepted, written, popped, bcastVars, poolVars,
                   histVars>>

\* pop(consumerId): acquire load of write_pos_ and the empty check
SPMCb_pop_load_write(t) ==
    /\ pc[t] = "spmcb_pop_load_write"
    /\ current_write' = [current_write EXCEPT ![t] = write_pos]
    /\ IF current_read[t] >= write_pos
       THEN /\ pc' = [pc EXCEPT ![t] = "idle"]
            /\ ret' = [ret EXCEPT ![t] = NoResult]
       ELSE /\ pc' = [pc EXCEPT ![t] = "spmcb_pop_store_read"]
            /\ ret' = ret
    /\ UNCHANGED <<buffer, write_pos, read_pos, current_read, arg, nextVal,
                   accepted, written, popped, bcastVars, poolVars, histVars>>
\* pop(consumerId) as it would be if it stored the cursor it loaded
SPMCb_pop_store_read_NoAdvance(t) ==
    /\ pc[t] = "spmcb_pop_store_read"
    /\ read_positions' = [read_positions EXCEPT ![ReaderId(t)] =
                             current_read[t]]
    /\ pc' = [pc EXCEPT ![t] = "spmcb_pop_copy_slot"]
    /\ UNCHANGED <<buffer, write_pos, read_pos, current_write, current_read, arg,
                   ret, nextVal, accepted, written, popped, min_read_cache,
                   min_reader_index, scan_i, poolVars, histVars>>
\* pop(consumerId): T& slot = buffer_[...] binds a reference (no access);
\* then the release store of read_positions_[consumerId] = current_read + 1
SPMCb_pop_store_read(t) ==
    /\ pc[t] = "spmcb_pop_store_read"
    /\ read_positions' = [read_positions EXCEPT ![ReaderId(t)] =
                             UAdd(current_read[t], 1)]
    /\ pc' = [pc EXCEPT ![t] = "spmcb_pop_copy_slot"]
    /\ UNCHANGED <<buffer, write_pos, read_pos, current_write, current_read, arg,
                   ret, nextVal, accepted, written, popped, min_read_cache,
                   min_reader_index, scan_i, poolVars, histVars>>

\* pop(consumerId): return optional<T>{in_place, slot} copies the slot
SPMCb_pop_copy_slot(t) ==
    /\ pc[t] = "spmcb_pop_copy_slot"
    /\ ret' = [ret EXCEPT ![t] = Some(buffer[Slot(current_read[t])])]
    /\ popped' = [popped EXCEPT ![t] =
                     Append(@, PopEntry(current_read[t], buffer[Slot(current_read[t])]))]
    /\ pc' = [pc EXCEPT ![t] = "idle"]
    /\ UNCHANGED <<arg, buffer, write_pos, read_pos, current_write, current_read,
                   nextVal, accepted, written, bcastVars, poolVars, histVars>>

NextSPMCb ==
    \/ SPMCb_push_load_write(TheProducer)
    \/ SPMCb_push_scan(TheProducer)
    \/ SPMCb_push_write_slot(TheProducer)
    \/ SPMCb_push_store_write(TheProducer)
    \/ \E c \in Consumers : SPMCb_pop_load_read(c)
    \/ \E c \in Consumers : SPMCb_pop_load_write(c)
    \/ \E c \in Consumers : SPMCb_pop_store_read(c)
    \/ \E c \in Consumers : SPMCb_pop_copy_slot(c)

SpecSPMCb == InitRing /\ [][NextSPMCb]_vars

\* a reader's pops are the accepted values in index order: its k-th pop is
\* for index k-1 and returns the value accepted for that index
ReaderSeesPushOrder(c) ==
    \A i \in 1 .. Len(popped[c]) :
        /\ popped[c][i].idx = i - 1
        /\ i <= Len(accepted)
        /\ popped[c][i].val = accepted[i]

\* C3: SPMC broadcast, non-overwriting push and pop(id): each reader id
\* receives exactly the sequence of accepted values in push order, with no
\* gap, no duplicate and no value from a later lap of the ring.
C3_SPMCb_EveryReaderSeesPushOrder ==
    \A c \in Consumers : ReaderSeesPushOrder(c)

(***************************************************************************)
(* MPSC ring                                                               *)
(***************************************************************************)
\* push: the call with a fresh value or a further round of the loop, and the
\* relaxed load of write_pos_
MPSC_push_load_write(t) ==
    /\ CallsOrRetries(t, Producers, "mpsc_push_loop")
    /\ Calls(t) => nextVal < MaxPush
    /\ nextVal' = IF Calls(t) THEN nextVal + 1 ELSE nextVal
    /\ arg' = IF Calls(t) THEN [arg EXCEPT ![t] = nextVal + 1] ELSE arg
    /\ current_write' = [current_write EXCEPT ![t] = write_pos]
    /\ sawFull' = [sawFull EXCEPT ![t] = @ \/ RingFull(write_pos)]
    /\ pc' = [pc EXCEPT ![t] = "mpsc_push_load_read"]
    /\ UNCHANGED <<buffer, write_pos, read_pos, current_read, ret,
                   accepted, written, popped, bcastVars, poolVars,
                   ring, localVars, maskVars, overwrites, rewinds, threw>>

\* mutant of the full check: > instead of >= (admits a push into a full ring)
MPSC_push_load_read_FullOffByOne(t) ==
    /\ pc[t] = "mpsc_push_load_read"
    /\ IF USub(current_write[t], read_pos) > BufSize
       THEN /\ pc' = [pc EXCEPT ![t] = "idle"]
            /\ ret' = [ret EXCEPT ![t] = NoResult]
            /\ current_write' = OutOfScope(current_write, t)
            /\ current_read' = OutOfScope(current_read, t)
            /\ sawFull' = [sawFull EXCEPT ![t] = FALSE]
       ELSE /\ pc' = [pc EXCEPT ![t] = "mpsc_push_cas"]
            /\ ret' = ret
            /\ current_write' = current_write
            /\ current_read' = [current_read EXCEPT ![t] = read_pos]
            /\ sawFull' = sawFull
    /\ UNCHANGED <<buffer, write_pos, read_pos, arg, nextVal, accepted, written,
                   popped, bcastVars, poolVars, ring, localVars, maskVars,
                   overwrites, rewinds, threw>>

\* push: acquire load of read_pos_; full iff current_write - current_read >= BufSize
MPSC_push_load_read(t) ==
    /\ pc[t] = "mpsc_push_load_read"
    /\ IF USub(current_write[t], read_pos) >= BufSize
       THEN /\ pc' = [pc EXCEPT ![t] = "idle"]
            /\ ret' = [ret EXCEPT ![t] = NoResult]
            /\ current_write' = OutOfScope(current_write, t)
            /\ current_read' = OutOfScope(current_read, t)
            /\ sawFull' = [sawFull EXCEPT ![t] = FALSE]
       ELSE /\ pc' = [pc EXCEPT ![t] = "mpsc_push_cas"]
            /\ ret' = ret
            /\ current_write' = current_write
            /\ current_read' = [current_read EXCEPT ![t] = read_pos]
            /\ sawFull' = sawFull
    /\ UNCHANGED <<buffer, write_pos, read_pos, arg, nextVal,
                   accepted, written, popped, bcastVars, poolVars,
                   ring, localVars, maskVars, overwrites, rewinds, threw>>

\* push: write_pos_.compare_exchange_weak(current_write, current_write + 1);
\* on failure yield and go round the loop
MPSC_push_cas(t) ==
    /\ pc[t] = "mpsc_push_cas"
    /\ IF write_pos = current_write[t]
       THEN /\ write_pos' = UAdd(current_write[t], 1)
            /\ accepted' = Append(accepted, arg[t])
            /\ current_write' = current_write
            /\ pc' = [pc EXCEPT ![t] = "mpsc_push_write_slot"]
            /\ sawFull' = [u \in Threads |->
                              /\ u # t
                              /\ InPush(u)
                              /\ (sawFull[u] \/ RingFull(UAdd(write_pos, 1)))]
       ELSE /\ write_pos' = write_pos
            /\ accepted' = accepted
            /\ current_write' = [current_write EXCEPT ![t] = write_pos]
            /\ pc' = [pc EXCEPT ![t] = "mpsc_push_loop"]
            /\ sawFull' = sawFull
    /\ current_read' = OutOfScope(current_read, t)
    /\ UNCHANGED <<buffer, read_pos, arg, ret, nextVal,
                   written, popped, bcastVars, poolVars, ring, localVars, maskVars,
                   overwrites,
                   rewinds, threw>>

\* push: buffer_[current_write & MASK] = u; return true
MPSC_push_write_slot(t) ==
    /\ pc[t] = "mpsc_push_write_slot"
    /\ buffer' = [buffer EXCEPT ![Slot(current_write[t])] = arg[t]]
    /\ written' = written \cup {current_write[t]}
    /\ ret' = [ret EXCEPT ![t] = Some(arg[t])]
    /\ pc' = [pc EXCEPT ![t] = "idle"]
    /\ current_write' = OutOfScope(current_write, t)
    /\ UNCHANGED <<write_pos, read_pos, current_read, arg,
                   nextVal, accepted, popped, bcastVars, poolVars, histVars>>

\* pop: relaxed load of read_pos_
MPSC_pop_load_read(t) ==
    /\ pc[t] = "idle"
    /\ current_read' = [current_read EXCEPT ![t] = read_pos]
    /\ pc' = [pc EXCEPT ![t] = "mpsc_pop_load_write"]
    /\ UNCHANGED <<buffer, write_pos, read_pos, current_write, arg, ret,
                   nextVal, accepted, written, popped, bcastVars, poolVars,
                   histVars>>

\* pop: acquire load of write_pos_ and the empty check
MPSC_pop_load_write(t) ==
    /\ pc[t] = "mpsc_pop_load_write"
    /\ IF current_read[t] >= write_pos
       THEN /\ pc' = [pc EXCEPT ![t] = "idle"]
            /\ ret' = [ret EXCEPT ![t] = NoResult]
            /\ current_read' = OutOfScope(current_read, t)
            /\ current_write' = OutOfScope(current_write, t)
       ELSE /\ pc' = [pc EXCEPT ![t] = "mpsc_pop_move_slot"]
            /\ ret' = ret
            /\ current_read' = current_read
            /\ current_write' = [current_write EXCEPT ![t] = write_pos]
    /\ UNCHANGED <<buffer, write_pos, read_pos, arg, nextVal,
                   accepted, written, popped, bcastVars, poolVars, histVars>>

\* pop: T value = std::move(buffer_[current_read & MASK])
MPSC_pop_move_slot(t) ==
    /\ pc[t] = "mpsc_pop_move_slot"
    /\ arg' = [arg EXCEPT ![t] = buffer[Slot(current_read[t])]]
    /\ buffer' = [buffer EXCEPT ![Slot(current_read[t])] = MovedFrom(t, @)]
    /\ popped' = [popped EXCEPT ![t] =
                     Append(@, PopEntry(current_read[t], buffer[Slot(current_read[t])]))]
    /\ pc' = [pc EXCEPT ![t] = "mpsc_pop_store_read"]
    /\ UNCHANGED <<write_pos, read_pos, current_write, current_read, ret,
                   nextVal, accepted, written, bcastVars, poolVars, histVars>>

\* pop: release store of read_pos_ and return the value
MPSC_pop_store_read(t) ==
    /\ pc[t] = "mpsc_pop_store_read"
    /\ read_pos' = UAdd(current_read[t], 1)
    /\ ret' = [ret EXCEPT ![t] = Some(arg[t])]
    /\ pc' = [pc EXCEPT ![t] = "idle"]
    /\ current_read' = OutOfScope(current_read, t)
    /\ current_write' = OutOfScope(current_write, t)
    /\ UNCHANGED <<buffer, write_pos, arg,
                   nextVal, accepted, written, popped, bcastVars, poolVars,
                   histVars>>

NextMPSC ==
    \/ \E p \in Producers : MPSC_push_load_write(p)
    \/ \E p \in Producers : MPSC_push_load_read(p)
    \/ \E p \in Producers : MPSC_push_cas(p)
    \/ \E p \in Producers : MPSC_push_write_slot(p)
    \/ MPSC_pop_load_read(TheConsumer)
    \/ MPSC_pop_load_write(TheConsumer)
    \/ MPSC_pop_move_slot(TheConsumer)
    \/ MPSC_pop_store_read(TheConsumer)

SpecMPSC == InitRing /\ [][NextMPSC]_vars

\* C4: MPSC: the sequence of values returned by the consumer's pops equals
\* the accepted values in the order of the write indices claimed by CAS, and
\* a pop never returns the content of a slot whose claiming producer has not
\* yet written it.
C4_MPSC_PopsFollowClaimOrder ==
    /\ IsPrefix(PoppedVals(TheConsumer), accepted)
    /\ \A i \in 1 .. Len(popped[TheConsumer]) : popped[TheConsumer][i].wr

(***************************************************************************)
(* MPMC ring, unicast.  Its operations are also the ones the task executor *)
(* calls on tasks_, so they return to ReturnPc(t).                         *)
(***************************************************************************)
\* do_push: the call with a fresh value (a test's producer thread) or a
\* round of the loop, and the relaxed load of write_pos_
MPMCu_push_load_write(t) ==
    /\ CallsOrRetries(t, Producers, "mpmcu_push_loop")
    /\ Calls(t) => nextVal < MaxPush
    /\ nextVal' = IF Calls(t) THEN nextVal + 1 ELSE nextVal
    /\ arg' = IF Calls(t) THEN [arg EXCEPT ![t] = nextVal + 1] ELSE arg
    /\ current_write' = [current_write EXCEPT ![t] = write_pos]
    /\ sawFull' = [sawFull EXCEPT ![t] = @ \/ RingFull(write_pos)]
    /\ pc' = [pc EXCEPT ![t] = "mpmcu_push_load_read"]
    /\ UNCHANGED <<buffer, write_pos, read_pos, current_read, ret,
                   accepted, written, popped, bcastVars, poolVars,
                   ring, localVars, maskVars, overwrites, rewinds, threw>>

\* do_push: acquire load of read_pos_; full iff current_write - current_read >= BufSize
MPMCu_push_load_read(t) ==
    /\ pc[t] = "mpmcu_push_load_read"
    /\ IF USub(current_write[t], read_pos) >= BufSize
       THEN /\ pc' = [pc EXCEPT ![t] = ReturnPc(t)]
            /\ ret' = [ret EXCEPT ![t] = NoResult]
            /\ current_write' = OutOfScope(current_write, t)
            /\ current_read' = OutOfScope(current_read, t)
            /\ sawFull' = [sawFull EXCEPT ![t] = FALSE]
       ELSE /\ pc' = [pc EXCEPT ![t] = "mpmcu_push_cas"]
            /\ ret' = ret
            /\ current_write' = current_write
            /\ current_read' = [current_read EXCEPT ![t] = read_pos]
            /\ sawFull' = sawFull
    /\ UNCHANGED <<buffer, write_pos, read_pos, arg, nextVal,
                   accepted, written, popped, bcastVars, poolVars,
                   ring, localVars, maskVars, overwrites, rewinds, threw>>
\* do_push as it would be if the new write index were stored without comparing
\* the index with the value loaded
MPMCu_push_cas_StoresWithoutComparing(t) ==
    /\ pc[t] = "mpmcu_push_cas"
    /\ IF write_pos >= current_write[t]
       THEN /\ write_pos' = UAdd(current_write[t], 1)
            /\ accepted' = Append(accepted, arg[t])
            /\ current_write' = current_write
            /\ pc' = [pc EXCEPT ![t] = "mpmcu_push_write_slot"]
            /\ sawFull' = [u \in Threads |->
                              /\ u # t
                              /\ InPush(u)
                              /\ (sawFull[u] \/ RingFull(UAdd(write_pos, 1)))]
       ELSE /\ write_pos' = write_pos
            /\ accepted' = accepted
            /\ current_write' = [current_write EXCEPT ![t] = write_pos]
            /\ pc' = [pc EXCEPT ![t] = "mpmcu_push_loop"]
            /\ sawFull' = sawFull
    /\ current_read' = OutOfScope(current_read, t)
    /\ UNCHANGED <<buffer, read_pos, arg, ret, nextVal,
                   written, popped, bcastVars, poolVars, ring, localVars, maskVars,
                   overwrites,
                   rewinds, threw>>
\* do_push: write_pos_.compare_exchange_weak(current_write, current_write + 1);
\* on failure yield and go round the loop
MPMCu_push_cas(t) ==
    /\ pc[t] = "mpmcu_push_cas"
    /\ IF write_pos = current_write[t]
       THEN /\ write_pos' = UAdd(current_write[t], 1)
            /\ accepted' = Append(accepted, arg[t])
            /\ current_write' = current_write
            /\ pc' = [pc EXCEPT ![t] = "mpmcu_push_write_slot"]
            /\ sawFull' = [u \in Threads |->
                              /\ u # t
                              /\ InPush(u)
                              /\ (sawFull[u] \/ RingFull(UAdd(write_pos, 1)))]
       ELSE /\ write_pos' = write_pos
            /\ accepted' = accepted
            /\ current_write' = [current_write EXCEPT ![t] = write_pos]
            /\ pc' = [pc EXCEPT ![t] = "mpmcu_push_loop"]
            /\ sawFull' = sawFull
    /\ current_read' = OutOfScope(current_read, t)
    /\ UNCHANGED <<buffer, read_pos, arg, ret, nextVal,
                   written, popped, bcastVars, poolVars, ring, localVars, maskVars,
                   overwrites,
                   rewinds, threw>>
\* do_push as it would be if it wrote the slot after the one it claimed
MPMCu_push_write_slot_NextSlot(t) ==
    /\ pc[t] = "mpmcu_push_write_slot"
    /\ buffer' = [buffer EXCEPT ![Slot(UAdd(current_write[t], 1))] = arg[t]]
    /\ written' = written \cup {current_write[t]}
    /\ ret' = [ret EXCEPT ![t] = Some(arg[t])]
    /\ pc' = [pc EXCEPT ![t] = ReturnPc(t)]
    /\ current_write' = OutOfScope(current_write, t)
    /\ UNCHANGED <<write_pos, read_pos, current_read, arg,
                   nextVal, accepted, popped, bcastVars, poolVars, histVars>>
\* do_push: buffer_[current_write & MASK] = u; release fence; return true
MPMCu_push_write_slot(t) ==
    /\ pc[t] = "mpmcu_push_write_slot"
    /\ buffer' = [buffer EXCEPT ![Slot(current_write[t])] = arg[t]]
    /\ written' = written \cup {current_write[t]}
    /\ ret' = [ret EXCEPT ![t] = Some(arg[t])]
    /\ pc' = [pc EXCEPT ![t] = ReturnPc(t)]
    /\ current_write' = OutOfScope(current_write, t)
    /\ UNCHANGED <<write_pos, read_pos, current_read, arg,
                   nextVal, accepted, popped, bcastVars, poolVars, histVars>>

\* pop: the call (a test's consumer thread) or a round of the loop, and the
\* relaxed load of read_pos_
MPMCu_pop_load_read(t) ==
    /\ CallsOrRetries(t, Consumers, "mpmcu_pop_loop")
    /\ current_read' = [current_read EXCEPT ![t] = read_pos]
    /\ pc' = [pc EXCEPT ![t] = "mpmcu_pop_load_write"]
    /\ UNCHANGED <<buffer, write_pos, read_pos, current_write, arg, ret,
                   nextVal, accepted, written, popped, bcastVars, poolVars,
                   histVars>>

\* pop: acquire load of write_pos_ and the empty check
MPMCu_pop_load_write(t) ==
    /\ pc[t] = "mpmcu_pop_load_write"
    /\ IF current_read[t] >= write_pos
       THEN /\ pc' = [pc EXCEPT ![t] = ReturnPc(t)]
            /\ ret' = [ret EXCEPT ![t] = NoResult]
            /\ current_read' = OutOfScope(current_read, t)
            /\ current_write' = OutOfScope(current_write, t)
       ELSE /\ pc' = [pc EXCEPT ![t] = "mpmcu_pop_cas"]
            /\ ret' = ret
            /\ current_read' = current_read
            /\ current_write' = [current_write EXCEPT ![t] = write_pos]
    /\ UNCHANGED <<buffer, write_pos, read_pos, arg, nextVal,
                   accepted, written, popped, bcastVars, poolVars, histVars>>

\* pop: read_pos_.compare_exchange_weak(current_read, current_read + 1);
\* on failure yield and go round the loop
MPMCu_pop_cas(t) ==
    /\ pc[t] = "mpmcu_pop_cas"
    /\ IF read_pos = current_read[t]
       THEN /\ read_pos' = UAdd(current_read[t], 1)
            /\ current_read' = current_read
            /\ pc' = [pc EXCEPT ![t] = "mpmcu_pop_move_slot"]
       ELSE /\ read_pos' = read_pos
            /\ current_read' = [current_read EXCEPT ![t] = read_pos]
            /\ pc' = [pc EXCEPT ![t] = "mpmcu_pop_loop"]
    /\ current_write' = OutOfScope(current_write, t)
    /\ UNCHANGED <<buffer, write_pos, arg, ret, nextVal,
                   accepted, written, popped, bcastVars, poolVars, histVars>>

\* pop: T item = std::move(buffer_[current_read & MASK]); acquire fence; return item
MPMCu_pop_move_slot(t) ==
    /\ pc[t] = "mpmcu_pop_move_slot"
    /\ buffer' = [buffer EXCEPT ![Slot(current_read[t])] = MovedFrom(t, @)]
    /\ ret' = [ret EXCEPT ![t] = Some(buffer[Slot(current_read[t])])]
    /\ popped' = [popped EXCEPT ![t] =
                     Append(@, PopEntry(current_read[t], buffer[Slot(current_read[t])]))]
    /\ pc' = [pc EXCEPT ![t] = ReturnPc(t)]
    /\ current_read' = OutOfScope(current_read, t)
    /\ UNCHANGED <<arg, write_pos, read_pos, current_write,
                   nextVal, accepted, written, bcastVars, poolVars, histVars>>

NextMPMCu ==
    \/ \E p \in Producers : MPMCu_push_load_write(p)
    \/ \E p \in Producers : MPMCu_push_load_read(p)
    \/ \E p \in Producers : MPMCu_push_cas(p)
    \/ \E p \in Producers : MPMCu_push_write_slot(p)
    \/ \E c \in Consumers : MPMCu_pop_load_read(c)
    \/ \E c \in Consumers : MPMCu_pop_load_write(c)
    \/ \E c \in Consumers : MPMCu_pop_cas(c)
    \/ \E c \in Consumers : MPMCu_pop_move_slot(c)

SpecMPMCu == InitRing /\ [][NextMPMCu]_vars

\* number of pops (of all consumers) that returned value v
PopCount(v) == Cardinality({r \in PopRefs : popped[r[1]][r[2]].val = v})

\* number of accepted pushes of value v
PushCount(v) == Cardinality({i \in 1 .. Len(accepted) : accepted[i] = v})

\* all pushes have returned and the ring has been drained
PushedAndDrained ==
    /\ \A t \in Producers \cup Consumers : pc[t] = "idle"
    /\ read_pos = write_pos

\* C5: MPMC unicast: at every moment the multiset of values returned by pops
\* is contained in the multiset of accepted values, and once all pushes have
\* returned and the ring is drained the two multisets are equal.
C5_MPMCu_PoppedMultisetIsPushed ==
    /\ \A v \in 0 .. MaxPush : PopCount(v) <= PushCount(v)
    /\ PushedAndDrained => \A v \in 0 .. MaxPush : PopCount(v) = PushCount(v)

\* C6: MPMC unicast: a consumer that claimed read index i moves slot i mod N
\* out only after the producer that reserved write index i has written it,
\* and obtains the value that producer wrote.
C6_MPMCu_SlotWrittenBeforeMovedOut ==
    \A c \in Consumers : \A i \in 1 .. Len(popped[c]) :
        /\ popped[c][i].wr
        /\ popped[c][i].val = accepted[popped[c][i].idx + 1]

(***************************************************************************)
(* MPMC ring, broadcast                                                    *)
(***************************************************************************)
\* do_push: the call with a fresh value or a further round of the loop, and
\* the relaxed load of write_pos_
MPMCb_push_load_write(t) ==
    /\ CallsOrRetries(t, Producers, "mpmcb_push_loop")
    /\ Calls(t) => nextVal < MaxPush
    /\ nextVal' = IF Calls(t) THEN nextVal + 1 ELSE nextVal
    /\ arg' = IF Calls(t) THEN [arg EXCEPT ![t] = nextVal + 1] ELSE arg
    /\ current_write' = [current_write EXCEPT ![t] = write_pos]
    /\ min_reader_index' = [min_reader_index EXCEPT ![t] = SIZE_MAX]
    /\ scan_i' = [scan_i EXCEPT ![t] = 0]
    /\ pc' = [pc EXCEPT ![t] = "mpmcb_push_scan"]
    /\ UNCHANGED <<buffer, write_pos, read_pos, current_read, ret, accepted,
                   written, popped, read_positions, min_read_cache, poolVars,
                   histVars>>

\* do_push: one iteration of the scan (acquire load of read_positions_[i]);
\* after the last one: full iff current_write - min_reader_index >= BufSize
MPMCb_push_scan(t) ==
    /\ pc[t] = "mpmcb_push_scan"
    /\ scan_i[t] < MaxReaders
    /\ LET reader_index == read_positions[scan_i[t]]
           new_min == IF reader_index < min_reader_index[t]
                      THEN reader_index ELSE min_reader_index[t]
       IN IF scan_i[t] + 1 < MaxReaders
          THEN /\ min_reader_index' = [min_reader_index EXCEPT ![t] = new_min]
               /\ scan_i' = [scan_i EXCEPT ![t] = @ + 1]
               /\ UNCHANGED <<pc, ret, current_write>>
          ELSE /\ min_reader_index' = OutOfScope(min_reader_index, t)
               /\ scan_i' = OutOfScope(scan_i, t)
               /\ IF USub(current_write[t], new_min) >= BufSize
                  THEN /\ pc' = [pc EXCEPT ![t] = "idle"]
                       /\ ret' = [ret EXCEPT ![t] = NoResult]
                       /\ current_write' = OutOfScope(current_write, t)
                  ELSE /\ pc' = [pc EXCEPT ![t] = "mpmcb_push_cas"]
                       /\ ret' = ret
                       /\ current_write' = current_write
    /\ UNCHANGED <<buffer, write_pos, read_pos, current_read, arg, nextVal,
                   accepted, written, popped, read_positions, min_read_cache,
                   poolVars, histVars>>

\* mutant of the reservation: an unconditional fetch_add in place of the
\* compare-exchange, so a producer whose snapshot is stale still takes an index
MPMCb_push_cas_FetchAdd(t) ==
    /\ pc[t] = "mpmcb_push_cas"
    /\ write_pos' = UAdd(write_pos, 1)
    /\ accepted' = Append(accepted, arg[t])
    /\ current_write' = [current_write EXCEPT ![t] = write_pos]
    /\ pc' = [pc EXCEPT ![t] = "mpmcb_push_write_slot"]
    /\ UNCHANGED <<buffer, read_pos, current_read, arg, ret, nextVal,
                   written, popped, bcastVars, poolVars, histVars>>

\* do_push: write_pos_.compare_exchange_weak(current_write, current_write + 1);
\* on failure yield and go round the loop
MPMCb_push_cas(t) ==
    /\ pc[t] = "mpmcb_push_cas"
    /\ IF write_pos = current_write[t]
       THEN /\ write_pos' = UAdd(current_write[t], 1)
            /\ accepted' = Append(accepted, arg[t])
            /\ current_write' = current_write
            /\ pc' = [pc EXCEPT ![t] = "mpmcb_push_write_slot"]
       ELSE /\ write_pos' = write_pos
            /\ accepted' = accepted
            /\ current_write' = [current_write EXCEPT ![t] = write_pos]
            /\ pc' = [pc EXCEPT ![t] = "mpmcb_push_loop"]
    /\ UNCHANGED <<buffer, read_pos, current_read, arg, ret, nextVal,
                   written, popped, bcastVars, poolVars, histVars>>

\* do_push: buffer_[current_write & MASK] = u; return true
MPMCb_push_write_slot(t) ==
    /\ pc[t] = "mpmcb_push_write_slot"
    /\ buffer' = [buffer EXCEPT ![Slot(current_write[t])] = arg[t]]
    /\ written' = written \cup {current_write[t]}
    /\ ret' = [ret EXCEPT ![t] = Some(arg[t])]
    /\ pc' = [pc EXCEPT ![t] = "idle"]
    /\ current_write' = OutOfScope(current_write, t)
    /\ UNCHANGED <<write_pos, read_pos, current_read, arg,
                   nextVal, accepted, popped, bcastVars, poolVars, histVars>>

\* pop(consumerId): relaxed load of read_positions_[consumerId]
MPMCb_pop_load_read(t) ==
    /\ pc[t] = "idle"
    /\ current_read' = [current_read EXCEPT ![t] = read_positions[ReaderId(t)]]
    /\ pc' = [pc EXCEPT ![t] = "mpmcb_pop_load_write"]
    /\ UNCHANGED <<buffer, write_pos, read_pos, current_write, arg, ret,
                   nextVal, accepted, written, popped, bcastVars, poolVars,
                   histVars>>

\* pop(consumerId): acquire load of write_pos_ and the empty check
MPMCb_pop_load_write(t) ==
    /\ pc[t] = "mpmcb_pop_load_write"
    /\ IF current_read[t] >= write_pos
       THEN /\ pc' = [pc EXCEPT ![t] = "idle"]
            /\ ret' = [ret EXCEPT ![t] = NoResult]
            /\ current_read' = OutOfScope(current_read, t)
            /\ current_write' = OutOfScope(current_write, t)
       ELSE /\ pc' = [pc EXCEPT ![t] = "mpmcb_pop_move_slot"]
            /\ ret' = ret
            /\ current_read' = current_read
            /\ current_write' = [current_write EXCEPT ![t] = write_pos]
    /\ UNCHANGED <<buffer, write_pos, read_pos, arg, nextVal,
                   accepted, written, popped, bcastVars, poolVars, histVars>>

\* pop(consumerId): T value = std::move(buffer_[current_read & MASK])
MPMCb_pop_move_slot(t) ==
    /\ pc[t] = "mpmcb_pop_move_slot"
    /\ arg' = [arg EXCEPT ![t] = buffer[Slot(current_read[t])]]
    /\ buffer' = [buffer EXCEPT ![Slot(current_read[t])] = MovedFrom(t, @)]
    /\ popped' = [popped EXCEPT ![t] =
                     Append(@, PopEntry(current_read[t], buffer[Slot(current_read[t])]))]
    /\ pc' = [pc EXCEPT ![t] = "mpmcb_pop_store_read"]
    /\ UNCHANGED <<write_pos, read_pos, current_write, current_read, ret,
                   nextVal, accepted, written, bcastVars, poolVars, histVars>>

\* pop(consumerId): release store of read_positions_[consumerId]; return value
MPMCb_pop_store_read(t) ==
    /\ pc[t] = "mpmcb_pop_store_read"
    /\ read_positions' = [read_positions EXCEPT ![ReaderId(t)] =
                             UAdd(current_read[t], 1)]
    /\ ret' = [ret EXCEPT ![t] = Some(arg[t])]
    /\ pc' = [pc EXCEPT ![t] = "idle"]
    /\ current_read' = OutOfScope(current_read, t)
    /\ current_write' = OutOfScope(current_write, t)
    /\ UNCHANGED <<buffer, write_pos, read_pos, arg, nextVal, accepted, written,
                   popped, min_read_cache, min_reader_index, scan_i, poolVars,
                   histVars>>

NextMPMCb ==
    \/ \E p \in Producers : MPMCb_push_load_write(p)
    \/ \E p \in Producers : MPMCb_push_scan(p)
    \/ \E p \in Producers : MPMCb_push_cas(p)
    \/ \E p \in Producers : MPMCb_push_write_slot(p)
    \/ \E c \in Consumers : MPMCb_pop_load_read(c)
    \/ \E c \in Consumers : MPMCb_pop_load_write(c)
    \/ \E c \in Consumers : MPMCb_pop_move_slot(c)
    \/ \E c \in Consumers : MPMCb_pop_store_read(c)

SpecMPMCb == InitRing /\ [][NextMPMCb]_vars

\* two readers that both popped index i obtained the same value for it
ReadersAgree ==
    \A c1, c2 \in Consumers :
        \A i \in 1 .. Len(popped[c1]) : \A j \in 1 .. Len(popped[c2]) :
            popped[c1][i].idx = popped[c2][j].idx
                => popped[c1][i].val = popped[c2][j].val

\* C7: MPMC broadcast with pop(id): every reader id receives every accepted
\* value exactly once, in the order of the write indices claimed by the
\* producers' CAS, and all readers receive the same value for the same index.
C7_MPMCb_EveryReaderSeesClaimOrder ==
    /\ \A c \in Consumers : ReaderSeesPushOrder(c)
    /\ ReadersAgree

(***************************************************************************)
(* Task executor: threadpool<PoolSize, QueueSize>.  A Task in a slot is    *)
(* the number of the task whose packaged_task it invokes; 0 is an empty    *)
(* std::function.  A worker at "idle" is at the condition of its main      *)
(* loop; a submitter at "idle" is outside submit().                        *)
(***************************************************************************)
\* submit: make the packaged_task and its future, wrap it in a Task and call
\* tasks_.push(std::move(wrapper)); the pool is not yet being destroyed
Submit_call(t) ==
    /\ pc[t] = "idle"
    /\ dtor = "live"
    /\ nextVal < MaxPush
    /\ nextVal' = nextVal + 1
    /\ arg' = [arg EXCEPT ![t] = nextVal + 1]
    /\ future' = [future EXCEPT ![nextVal + 1] = "pending"]
    /\ pc' = [pc EXCEPT ![t] = "mpmcu_push_loop"]
    /\ UNCHANGED <<buffer, write_pos, read_pos, current_write, current_read, ret,
                   accepted, written, popped, bcastVars, stopping_,
                   stop_requested, draining, tasks_alive, dtor, executed,
                   returned, beforeStop, histVars>>

\* submit: tasks_.push returned: on false yield and push again, on true
\* return the future
Submit_pushed(t) ==
    /\ pc[t] = "submit_pushed"
    /\ IF ret[t].ok
       THEN /\ returned' = returned \cup {arg[t]}
            /\ pc' = [pc EXCEPT ![t] = "idle"]
       ELSE /\ returned' = returned
            /\ pc' = [pc EXCEPT ![t] = "mpmcu_push_loop"]
    /\ UNCHANGED <<buffer, write_pos, read_pos, current_write, current_read, arg,
                   ret, nextVal, accepted, written, popped, bcastVars, stopping_,
                   stop_requested, draining, tasks_alive, dtor, future, executed,
                   beforeStop, histVars>>

\* (*task_opt)() on Task v.  An empty std::function throws bad_function_call
\* and a packaged_task that already ran throws future_error; worker() catches
\* both.  Otherwise the function runs and makes the future ready: with its
\* result, or, if the function throws, with the exception, which the
\* packaged_task stores in the shared state (throws is the function's choice).
\* A Task of the destroyed ring (future "broken") is a dangling callable:
\* again is the choice between its running the function once more and its
\* throwing.
RunTask(v, again, throws) ==
    IF v = 0 THEN UNCHANGED <<future, executed, threw>>
    ELSE IF future[v] = "pending"
         THEN /\ executed' = [executed EXCEPT ![v] = @ + 1]
              /\ future' = [future EXCEPT ![v] = "ready"]
              /\ threw' = IF throws THEN threw \cup {v} ELSE threw
    ELSE IF future[v] = "broken" /\ again
         THEN /\ executed' = [executed EXCEPT ![v] = @ + 1]
              /\ future' = future
              /\ threw' = threw
    ELSE UNCHANGED <<future, executed, threw>>

\* worker: the condition of the main loop, !stopping_ && !stop_requested();
\* if it holds call tasks_.pop(), else go to the draining loop and call
\* tasks_.pop() there
Worker_check_stop(w) ==
    /\ pc[w] = "idle"
    /\ draining' = [draining EXCEPT ![w] = stopping_ \/ stop_requested[w]]
    /\ pc' = [pc EXCEPT ![w] = "mpmcu_pop_loop"]
    /\ UNCHANGED <<buffer, write_pos, read_pos, current_write, current_read, arg,
                   ret, nextVal, accepted, written, popped, bcastVars, stopping_,
                   stop_requested, tasks_alive, dtor, future, executed, returned,
                   beforeStop, histVars>>
\* worker as it would be if an exception of the task's function left
\* worker(): the thread ends
Worker_popped_NoCatch(w) ==
    /\ pc[w] = "worker_popped"
    /\ \E again, throws \in BOOLEAN :
          IF ret[w].ok THEN RunTask(ret[w].val, again, throws)
          ELSE UNCHANGED <<future, executed, threw>>
    /\ pc' = [pc EXCEPT ![w] = IF ret[w].ok /\ ret[w].val \in threw' \ threw
                                 THEN "worker_exited" ELSE "idle"]
    /\ UNCHANGED <<buffer, write_pos, read_pos, current_write, current_read, arg,
                   ret, nextVal, accepted, written, popped, bcastVars, stopping_,
                   stop_requested, draining, tasks_alive, dtor, returned,
                   beforeStop, ring, localVars, maskVars, sawFull, overwrites, rewinds>>
\* worker, main loop: run the popped task, or yield if there was none
Worker_popped(w) ==
    /\ pc[w] = "worker_popped"
    /\ \E again, throws \in BOOLEAN :
          IF ret[w].ok THEN RunTask(ret[w].val, again, throws)
          ELSE UNCHANGED <<future, executed, threw>>
    /\ pc' = [pc EXCEPT ![w] = "idle"]
    /\ UNCHANGED <<buffer, write_pos, read_pos, current_write, current_read, arg,
                   ret, nextVal, accepted, written, popped, bcastVars, stopping_,
                   stop_requested, draining, tasks_alive, dtor, returned,
                   beforeStop, ring, localVars, maskVars, sawFull, overwrites, rewinds>>

\* worker, draining loop: run the popped task and pop again, or return from
\* worker() when pop returned nothing
Worker_drain_popped(w) ==
    /\ pc[w] = "worker_drain_popped"
    /\ \E again, throws \in BOOLEAN :
          IF ret[w].ok THEN RunTask(ret[w].val, again, throws)
          ELSE UNCHANGED <<future, executed, threw>>
    /\ pc' = [pc EXCEPT ![w] = IF ret[w].ok THEN "mpmcu_pop_loop" ELSE "worker_exited"]
    /\ UNCHANGED <<buffer, write_pos, read_pos, current_write, current_read, arg,
                   ret, nextVal, accepted, written, popped, bcastVars, stopping_,
                   stop_requested, draining, tasks_alive, dtor, returned,
                   beforeStop, ring, localVars, maskVars, sawFull, overwrites, rewinds>>

\* ~threadpool calls stop(): stopping_.compare_exchange_strong(false, true);
\* no submit is in progress when the pool is destroyed
Dtor_stop ==
    /\ dtor = "live"
    /\ \A t \in Submitters : pc[t] = "idle"
    /\ stopping_' = TRUE
    /\ beforeStop' = returned
    /\ dtor' = "request_stop"
    /\ UNCHANGED <<buffer, write_pos, read_pos, pc, current_write, current_read,
                   arg, ret, nextVal, accepted, written, popped, bcastVars,
                   stop_requested, draining, tasks_alive, future, executed,
                   returned, histVars>>

\* stop(): request_stop() on every thread; stop() and the destructor's body
\* return
Dtor_request_stop ==
    /\ dtor = "request_stop"
    /\ stop_requested' = [w \in Workers |-> TRUE]
    /\ dtor' = "destroy_members"
    /\ UNCHANGED <<buffer, write_pos, read_pos, pc, current_write, current_read,
                   arg, ret, nextVal, accepted, written, popped, bcastVars,
                   stopping_, draining, tasks_alive, future, executed, returned,
                   beforeStop, histVars>>

\* the tasks whose Task still sits in a slot of the ring
TasksInRing == {buffer[s] : s \in DOMAIN buffer} \ {0}

\* the members are destroyed in reverse order of declaration: stopping_, then
\* tasks_.  Every Task left in the ring is destroyed, which abandons its
\* packaged_task (the future gets broken_promise).  What a destroyed slot
\* holds afterwards is indeterminate: it reads as empty or as the old Task.
Dtor_destroy_tasks ==
    /\ dtor = "destroy_members"
    /\ tasks_alive' = FALSE
    /\ future' = [k \in Tasks |->
                    IF k \in TasksInRing /\ future[k] = "pending"
                    THEN "broken" ELSE future[k]]
    /\ \E keep \in SUBSET (DOMAIN buffer) :
          buffer' = [s \in DOMAIN buffer |-> IF s \in keep THEN buffer[s] ELSE 0]
    /\ dtor' = "join"
    /\ UNCHANGED <<write_pos, read_pos, pc, current_write, current_read, arg, ret,
                   nextVal, accepted, written, popped, bcastVars, stopping_,
                   stop_requested, draining, executed, returned, beforeStop,
                   histVars>>

\* threads_ is destroyed last: every jthread's destructor joins its worker
Dtor_join ==
    /\ dtor = "join"
    /\ \A w \in Workers : pc[w] = "worker_exited"
    /\ dtor' = "done"
    /\ UNCHANGED <<buffer, write_pos, read_pos, pc, current_write, current_read,
                   arg, ret, nextVal, accepted, written, popped, bcastVars,
                   stopping_, stop_requested, draining, tasks_alive, future,
                   executed, returned, beforeStop, histVars>>

NextPool ==
    \/ \E t \in Submitters : Submit_call(t)
    \/ \E t \in Submitters : MPMCu_push_load_write(t)
    \/ \E t \in Submitters : MPMCu_push_load_read(t)
    \/ \E t \in Submitters : MPMCu_push_cas(t)
    \/ \E t \in Submitters : MPMCu_push_write_slot(t)
    \/ \E t \in Submitters : Submit_pushed(t)
    \/ \E w \in Workers : Worker_check_stop(w)
    \/ \E w \in Workers : MPMCu_pop_load_read(w)
    \/ \E w \in Workers : MPMCu_pop_load_write(w)
    \/ \E w \in Workers : MPMCu_pop_cas(w)
    \/ \E w \in Workers : MPMCu_pop_move_slot(w)
    \/ \E w \in Workers : Worker_popped(w)
    \/ \E w \in Workers : Worker_drain_popped(w)
    \/ Dtor_stop
    \/ Dtor_request_stop
    \/ Dtor_destroy_tasks
    \/ Dtor_join

SpecPool == InitRing /\ [][NextPool]_vars

\* every worker has returned from worker()
AllWorkersExited == \A w \in Workers : pc[w] = "worker_exited"

\* a worker that claimed an index obtained the Task that was enqueued at it
WorkersGetTheTaskTheyClaimed ==
    \A w \in Workers : \A i \in 1 .. Len(popped[w]) :
        popped[w][i].val = accepted[popped[w][i].idx + 1]

\* C8: every task whose submit call returned is executed exactly once and its
\* completion handle resolves to its result: no task runs twice, no worker
\* obtains anything but the task enqueued at the index it claimed, and when
\* the pool has shut down every submitted task has run and its future is ready.
C8_Pool_EveryTaskRunsExactlyOnce ==
    /\ \A k \in Tasks : executed[k] <= 1
    /\ WorkersGetTheTaskTheyClaimed
    /\ dtor = "done" =>
          \A k \in returned : executed[k] = 1 /\ future[k] = "ready"

\* C9: the destructor joins every worker before the task ring and the stop
\* flag are destroyed: once tasks_ is destroyed no worker is still running.
C9_Pool_JoinBeforeRingDestroyed ==
    ~tasks_alive => AllWorkersExited

\* C10: every task whose submit had returned when the destructor set the
\* stop flag has been executed by the time the last worker exits.
C10_Pool_DrainedBeforeLastWorkerExits ==
    AllWorkersExited => \A k \in beforeStop : executed[k] >= 1

(***************************************************************************)
(* The rings with one read index (SPSC, MPSC, SPMC unicast, MPMC unicast), *)
(* one of them per behaviour: ring names the class the threads operate on. *)
(***************************************************************************)
UnicastRings == {"SPSC", "MPSC", "SPMCu", "MPMCu"}

InitUnicastRings == InitMembers /\ ring \in UnicastRings

\* the threads S if the ring under test is of class k, no thread otherwise
On(k, S) == IF ring = k THEN S ELSE {}

NextUnicastRings ==
    \/ \E p \in On("SPSC", {TheProducer}) : SPSC_push_load_write(p)
    \/ \E p \in On("SPSC", {TheProducer}) : SPSC_push_load_read(p)
    \/ \E p \in On("SPSC", {TheProducer}) : SPSC_push_write_slot(p)
    \/ \E p \in On("SPSC", {TheProducer}) : SPSC_push_store_write(p)
    \/ \E c \in On("SPSC", {TheConsumer}) : SPSC_pop_load_read(c)
    \/ \E c \in On("SPSC", {TheConsumer}) : SPSC_pop_load_write(c)
    \/ \E c \in On("SPSC", {TheConsumer}) : SPSC_pop_move_slot(c)
    \/ \E c \in On("SPSC", {TheConsumer}) : SPSC_pop_store_read(c)
    \/ \E p \in On("MPSC", Producers) : MPSC_push_load_write(p)
    \/ \E p \in On("MPSC", Producers) : MPSC_push_load_read(p)
    \/ \E p \in On("MPSC", Producers) : MPSC_push_cas(p)
    \/ \E p \in On("MPSC", Producers) : MPSC_push_write_slot(p)
    \/ \E c \in On("MPSC", {TheConsumer}) : MPSC_pop_load_read(c)
    \/ \E c \in On("MPSC", {TheConsumer}) : MPSC_pop_load_write(c)
    \/ \E c \in On("MPSC", {TheConsumer}) : MPSC_pop_move_slot(c)
    \/ \E c \in On("MPSC", {TheConsumer}) : MPSC_pop_store_read(c)
    \/ \E p \in On("SPMCu", {TheProducer}) : SPMCu_push_load_write(p)
    \/ \E p \in On("SPMCu", {TheProducer}) : SPMCu_push_load_read(p)
    \/ \E p \in On("SPMCu", {TheProducer}) : SPMCu_push_write_slot(p)
    \/ \E p \in On("SPMCu", {TheProducer}) : SPMCu_push_store_write(p)
    \/ \E c \in On("SPMCu", Consumers) : SPMCu_pop_load_read(c)
    \/ \E c \in On("SPMCu", Consumers) : SPMCu_pop_load_write(c)
    \/ \E c \in On("SPMCu", Consumers) : SPMCu_pop_cas(c)
    \/ \E c \in On("SPMCu", Consumers) : SPMCu_pop_move_slot(c)
    \/ \E p \in On("MPMCu", Producers) : MPMCu_push_load_write(p)
    \/ \E p \in On("MPMCu", Producers) : MPMCu_push_load_read(p)
    \/ \E p \in On("MPMCu", Producers) : MPMCu_push_cas(p)
    \/ \E p \in On("MPMCu", Producers) : MPMCu_push_write_slot(p)
    \/ \E c \in On("MPMCu", Consumers) : MPMCu_pop_load_read(c)
    \/ \E c \in On("MPMCu", Consumers) : MPMCu_pop_load_write(c)
    \/ \E c \in On("MPMCu", Consumers) : MPMCu_pop_cas(c)
    \/ \E c \in On("MPMCu", Consumers) : MPMCu_pop_move_slot(c)

SpecUnicastRings == InitUnicastRings /\ [][NextUnicastRings]_vars

\* C11: SPSC, MPSC and the unicast SPMC / MPMC rings: in every reachable
\* state the read index has not passed the write index and the write index
\* is at most BufSize ahead of the read index.
C11_Unicast_OccupancyWithinCapacity ==
    /\ read_pos <= write_pos
    /\ write_pos - read_pos <= BufSize

\* C11 witness: a multi-producer multi-consumer ring that is full again after
\* items have been consumed, while a consumer is about to claim the next one.
C11_Witness ==
    /\ ring = "MPMCu"
    /\ read_pos >= 1
    /\ write_pos - read_pos = BufSize
    /\ \E c \in Consumers : pc[c] = "mpmcu_pop_cas"

\* the smallest reader cursor of a broadcast ring
MinReadPosition ==
    CHOOSE m \in {read_positions[r] : r \in ReaderIds} :
        \A r \in ReaderIds : m <= read_positions[r]

\* C12: SPMC broadcast with non-overwriting push and pop(id): in every
\* reachable state every reader cursor is at most the write index and the
\* write index is at most BufSize ahead of every reader cursor; the number of
\* successful pushes minus the smallest reader cursor never exceeds BufSize.
C12_SPMCb_WriteWithinCapacityOfEveryReader ==
    /\ \A r \in ReaderIds :
          /\ read_positions[r] <= write_pos
          /\ write_pos <= read_positions[r] + BufSize
    /\ Len(accepted) - MinReadPosition <= BufSize

\* C12 witness: one reader has consumed, the other holds the ring full, and
\* the producer's push has rescanned the cursors and returned false.
C12_Witness ==
    /\ write_pos = MinReadPosition + BufSize
    /\ \E r \in ReaderIds : read_positions[r] > MinReadPosition
    /\ pc[TheProducer] = "idle"
    /\ ~ret[TheProducer].ok
    /\ nextVal > Len(accepted)

\* C13: MPMC broadcast with several concurrent producers: in every reachable
\* state the write index is at most BufSize ahead of the smallest reader
\* cursor, also when two producers pass the fullness check at the same time.
C13_MPMCb_WriteWithinCapacityOfSlowestReader ==
    write_pos - MinReadPosition <= BufSize

\* C13 witness: two producers passed the fullness check for the same last
\* free index; one took it, the other's compare-exchange failed, and the ring
\* is full.
C13_Witness ==
    /\ write_pos - MinReadPosition = BufSize
    /\ \E p1, p2 \in Producers :
          /\ pc[p1] = "mpmcb_push_write_slot"
          /\ pc[p2] = "mpmcb_push_loop"
          /\ current_write[p2] = write_pos

\* this step is the return of false from thread p's push on a multi-producer
\* unicast ring
PushReturnsFull(p) ==
    /\ pc[p] \in {"mpsc_push_load_read", "mpmcu_push_load_read"}
    /\ pc'[p] = ReturnPc(p)
    /\ ~ret'[p].ok

\* C14: MPSC and MPMC unicast: a push call returns false only if the ring
\* held BufSize unconsumed items at some moment during the call, whatever the
\* other producers and the consumers do between the call's load of the write
\* index and its load of the read index.
C14_MultiProducer_FullOnlyIfRingWasFull ==
    [][\A p \in Producers : PushReturnsFull(p) => sawFull[p]]_vars

\* the step is one of thread t (every step of a thread moves its position)
Steps(t) == pc'[t] # pc[t]

\* SPSC push, the step that loads the read index: it returns false, leaving
\* the ring as it is, exactly when the snapshot has write - read >= BufSize
SPSC_PushRejectsIffFull(p) ==
    pc[p] = "spsc_push_load_read" /\ Steps(p) =>
        ((/\ pc'[p] = "idle"
          /\ ~ret'[p].ok
          /\ write_pos' = write_pos
          /\ buffer' = buffer)
         <=> current_write[p] - current_read'[p] >= BufSize)

\* SPSC push that was not rejected: the value is stored in slot write mod
\* BufSize and nowhere else, then the write index advances by exactly one and
\* the call returns true
SPSC_PushStoresAndAdvances(p) ==
    /\ pc[p] = "spsc_push_write_slot" /\ Steps(p) =>
          buffer' = [buffer EXCEPT ![write_pos % BufSize] = arg[p]]
    /\ pc[p] = "spsc_push_store_write" /\ Steps(p) =>
          /\ buffer[write_pos % BufSize] = arg[p]
          /\ write_pos' = write_pos + 1
          /\ pc'[p] = "idle"
          /\ ret'[p].ok

\* C15: SPSC push returns false exactly when the producer's snapshot has
\* write - read >= BufSize; otherwise it stores the value in slot write mod
\* BufSize, advances the write index by exactly one and returns true.
C15_SPSC_PushFalseIffFull ==
    [][SPSC_PushRejectsIffFull(TheProducer)
       /\ SPSC_PushStoresAndAdvances(TheProducer)]_vars

\* C15 witness: pushes filled the ring and returned true, and the next push
\* has returned false.
C15_Witness ==
    /\ Len(accepted) >= BufSize
    /\ write_pos - read_pos = BufSize
    /\ pc[TheProducer] = "idle"
    /\ ~ret[TheProducer].ok
    /\ nextVal > Len(accepted)

\* SPSC pop, the step that loads the write index: it returns empty, leaving
\* the read index as it is, exactly when the snapshot has read = write
SPSC_PopEmptyIffNothing(c) ==
    pc[c] = "spsc_pop_load_write" /\ Steps(c) =>
        ((/\ pc'[c] = "idle"
          /\ ~ret'[c].ok
          /\ read_pos' = read_pos)
         <=> current_read[c] = current_write'[c])

\* SPSC pop that found data: it returns the value in slot read mod BufSize,
\* which is the value pushed at index read, and advances the read index by
\* exactly one
SPSC_PopReturnsAndAdvances(c) ==
    pc[c] = "spsc_pop_store_read" /\ Steps(c) =>
        /\ ret'[c] = Some(buffer[read_pos % BufSize])
        /\ ret'[c].val = accepted[read_pos + 1]
        /\ read_pos' = read_pos + 1
        /\ pc'[c] = "idle"

\* C16: SPSC pop returns empty exactly when the consumer's snapshot has
\* read = write; otherwise it returns the value in slot read mod BufSize and
\* advances the read index by exactly one.
C16_SPSC_PopEmptyIffNothing ==
    [][SPSC_PopEmptyIffNothing(TheConsumer)
       /\ SPSC_PopReturnsAndAdvances(TheConsumer)]_vars

\* C16 witness: the consumer has popped values, also from a reused slot, and
\* its last pop found the ring empty.
C16_Witness ==
    /\ Len(popped[TheConsumer]) > BufSize
    /\ read_pos = write_pos
    /\ pc[TheConsumer] = "idle"
    /\ ~ret[TheConsumer].ok

\* the values returned to consumer c are values the producer passed to push
\* and are strictly increasing: the producer pushes 1, 2, ..., so this is c's
\* sequence being a subsequence of the push order
IsSubsequenceOfPushOrder(c) ==
    /\ \A i \in 1 .. Len(popped[c]) : popped[c][i].val \in 1 .. nextVal
    /\ \A i, j \in 1 .. Len(popped[c]) :
          i < j => popped[c][i].val < popped[c][j].val

\* C17: SPMC unicast: the sequence of values returned to any single consumer
\* is a subsequence of the producer's push order, under every interleaving
\* of the consumers' CAS claims and the producer's pushes.
C17_SPMCu_ConsumerSeesSubsequence ==
    \A c \in Consumers : IsSubsequenceOfPushOrder(c)

(***************************************************************************)
(* SPMC ring, broadcast: push_overwrite and pop_overwrite(id)              *)
(***************************************************************************)
\* push_overwrite: the call with a fresh value, and the relaxed load of
\* write_pos_
SPMCb_pushow_load_write(t) ==
    /\ pc[t] = "idle"
    /\ nextVal < MaxOverwrite
    /\ nextVal' = nextVal + 1
    /\ arg' = [arg EXCEPT ![t] = nextVal + 1]
    /\ current_write' = [current_write EXCEPT ![t] = write_pos]
    /\ pc' = [pc EXCEPT ![t] = "spmcb_pushow_write_slot"]
    /\ UNCHANGED <<buffer, write_pos, read_pos, current_read, ret, accepted,
                   written, popped, bcastVars, poolVars, histVars>>

\* push_overwrite: buffer_[current_write & MASK] = u
SPMCb_pushow_write_slot(t) ==
    /\ pc[t] = "spmcb_pushow_write_slot"
    /\ buffer' = [buffer EXCEPT ![Slot(current_write[t])] = arg[t]]
    /\ written' = written \cup {current_write[t]}
    /\ pc' = [pc EXCEPT ![t] = "spmcb_pushow_store_write"]
    /\ UNCHANGED <<write_pos, read_pos, current_write, current_read, arg, ret,
                   nextVal, accepted, popped, bcastVars, poolVars, histVars>>

\* mutant of the publication: the producer also moves the cursors of the
\* readers it has overtaken
SPMCb_pushow_store_write_MovesReaders(t) ==
    /\ pc[t] = "spmcb_pushow_store_write"
    /\ write_pos' = UAdd(current_write[t], 1)
    /\ read_positions' =
          [r \in ReaderIds |->
              IF UAdd(current_write[t], 1) > UAdd(read_positions[r], BufSize)
              THEN USub(UAdd(current_write[t], 1), BufSize)
              ELSE read_positions[r]]
    /\ accepted' = Append(accepted, arg[t])
    /\ overwrites' = overwrites \cup {current_write[t]}
    /\ ret' = [ret EXCEPT ![t] = Some(arg[t])]
    /\ pc' = [pc EXCEPT ![t] = "idle"]
    /\ UNCHANGED <<buffer, read_pos, current_write, current_read, arg,
                   nextVal, written, popped, min_read_cache, min_reader_index,
                   scan_i, poolVars, ring, localVars, maskVars, sawFull, rewinds, threw>>

\* push_overwrite: release store of write_pos_ and return
SPMCb_pushow_store_write(t) ==
    /\ pc[t] = "spmcb_pushow_store_write"
    /\ write_pos' = UAdd(current_write[t], 1)
    /\ accepted' = Append(accepted, arg[t])
    /\ overwrites' = overwrites \cup {current_write[t]}
    /\ ret' = [ret EXCEPT ![t] = Some(arg[t])]
    /\ pc' = [pc EXCEPT ![t] = "idle"]
    /\ UNCHANGED <<buffer, read_pos, current_write, current_read, arg,
                   nextVal, written, popped, bcastVars, poolVars, ring, localVars, maskVars,
                   sawFull, rewinds, threw>>

\* pop_overwrite(consumerId): relaxed load of read_positions_[consumerId]
SPMCb_popow_load_read(t) ==
    /\ pc[t] = "idle"
    /\ current_read' = [current_read EXCEPT ![t] = read_positions[ReaderId(t)]]
    /\ pc' = [pc EXCEPT ![t] = "spmcb_popow_load_write"]
    /\ UNCHANGED <<buffer, write_pos, read_pos, current_write, arg, ret,
                   nextVal, accepted, written, popped, bcastVars, poolVars,
                   histVars>>

\* pop_overwrite(consumerId) as it would be if a lapped reader were moved to the
\* newest element, write - 1, instead of the oldest one still in the ring
SPMCb_popow_load_write_ClampsToNewest(t) ==
    /\ pc[t] = "spmcb_popow_load_write"
    /\ current_write' = [current_write EXCEPT ![t] = write_pos]
    /\ IF write_pos > UAdd(current_read[t], BufSize)
       THEN /\ current_read' = [current_read EXCEPT ![t] = USub(write_pos, 1)]
            /\ pc' = [pc EXCEPT ![t] = "spmcb_popow_store_lost"]
            /\ ret' = ret
       ELSE IF current_read[t] >= write_pos
       THEN /\ current_read' = current_read
            /\ pc' = [pc EXCEPT ![t] = "idle"]
            /\ ret' = [ret EXCEPT ![t] = NoResult]
       ELSE /\ current_read' = current_read
            /\ pc' = [pc EXCEPT ![t] = "spmcb_popow_store_read"]
            /\ ret' = ret
    /\ UNCHANGED <<buffer, write_pos, read_pos, arg, nextVal, accepted, written,
                   popped, bcastVars, poolVars, histVars>>

\* pop_overwrite(consumerId) as it would be if a reader exactly one ring behind
\* were treated as having missed data (>= in place of >)
SPMCb_popow_load_write_LossAtBoundary(t) ==
    /\ pc[t] = "spmcb_popow_load_write"
    /\ current_write' = [current_write EXCEPT ![t] = write_pos]
    /\ IF write_pos >= UAdd(current_read[t], BufSize)
       THEN /\ current_read' = [current_read EXCEPT ![t] = USub(write_pos, BufSize)]
            /\ pc' = [pc EXCEPT ![t] = "spmcb_popow_store_lost"]
            /\ ret' = ret
       ELSE IF current_read[t] >= write_pos
       THEN /\ current_read' = current_read
            /\ pc' = [pc EXCEPT ![t] = "idle"]
            /\ ret' = [ret EXCEPT ![t] = NoResult]
       ELSE /\ current_read' = current_read
            /\ pc' = [pc EXCEPT ![t] = "spmcb_popow_store_read"]
            /\ ret' = ret
    /\ UNCHANGED <<buffer, write_pos, read_pos, arg, nextVal, accepted, written,
                   popped, bcastVars, poolVars, histVars>>

\* pop_overwrite(consumerId): acquire load of write_pos_; the test for missed
\* data (current_read = current_write - BufSize) and the empty check
SPMCb_popow_load_write(t) ==
    /\ pc[t] = "spmcb_popow_load_write"
    /\ current_write' = [current_write EXCEPT ![t] = write_pos]
    /\ IF write_pos > UAdd(current_read[t], BufSize)
       THEN /\ current_read' = [current_read EXCEPT ![t] = USub(write_pos, BufSize)]
            /\ pc' = [pc EXCEPT ![t] = "spmcb_popow_store_lost"]
            /\ ret' = ret
       ELSE IF current_read[t] >= write_pos
       THEN /\ current_read' = current_read
            /\ pc' = [pc EXCEPT ![t] = "idle"]
            /\ ret' = [ret EXCEPT ![t] = NoResult]
       ELSE /\ current_read' = current_read
            /\ pc' = [pc EXCEPT ![t] = "spmcb_popow_store_read"]
            /\ ret' = ret
    /\ UNCHANGED <<buffer, write_pos, read_pos, arg, nextVal, accepted, written,
                   popped, bcastVars, poolVars, histVars>>

\* pop_overwrite(consumerId) as it would be if the loss were reported without
\* storing the clamped cursor
SPMCb_popow_store_lost_KeepsCursor(t) ==
    /\ pc[t] = "spmcb_popow_store_lost"
    /\ read_positions' = read_positions
    /\ ret' = [ret EXCEPT ![t] = NoResult]
    /\ pc' = [pc EXCEPT ![t] = "idle"]
    /\ UNCHANGED <<buffer, write_pos, read_pos, current_write, current_read, arg,
                   nextVal, accepted, written, popped, min_read_cache,
                   min_reader_index, scan_i, poolVars, histVars>>

\* pop_overwrite(consumerId), data was overwritten: release store of the
\* cursor moved to current_write - BufSize; return nullopt
SPMCb_popow_store_lost(t) ==
    /\ pc[t] = "spmcb_popow_store_lost"
    /\ read_positions' = [read_positions EXCEPT ![ReaderId(t)] = current_read[t]]
    /\ ret' = [ret EXCEPT ![t] = NoResult]
    /\ pc' = [pc EXCEPT ![t] = "idle"]
    /\ UNCHANGED <<buffer, write_pos, read_pos, current_write, current_read, arg,
                   nextVal, accepted, written, popped, min_read_cache,
                   min_reader_index, scan_i, poolVars, histVars>>

\* pop_overwrite(consumerId): T& slot = buffer_[...] binds a reference (no
\* access); then the release store of read_positions_[consumerId] = current_read + 1
SPMCb_popow_store_read(t) ==
    /\ pc[t] = "spmcb_popow_store_read"
    /\ read_positions' = [read_positions EXCEPT ![ReaderId(t)] =
                             UAdd(current_read[t], 1)]
    /\ pc' = [pc EXCEPT ![t] = "spmcb_popow_copy_slot"]
    /\ UNCHANGED <<buffer, write_pos, read_pos, current_write, current_read, arg,
                   ret, nextVal, accepted, written, popped, min_read_cache,
                   min_reader_index, scan_i, poolVars, histVars>>

\* pop_overwrite(consumerId): return optional<T>{in_place, slot} copies the slot
SPMCb_popow_copy_slot(t) ==
    /\ pc[t] = "spmcb_popow_copy_slot"
    /\ ret' = [ret EXCEPT ![t] = Some(buffer[Slot(current_read[t])])]
    /\ popped' = [popped EXCEPT ![t] =
                     Append(@, PopEntry(current_read[t], buffer[Slot(current_read[t])]))]
    /\ pc' = [pc EXCEPT ![t] = "idle"]
    /\ UNCHANGED <<arg, buffer, write_pos, read_pos, current_write, current_read,
                   nextVal, accepted, written, bcastVars, poolVars, histVars>>

\* the producer mixes push and push_overwrite; the readers call pop(id)
NextSPMCbThrottle ==
    \/ SPMCb_push_load_write(TheProducer)
    \/ SPMCb_push_scan(TheProducer)
    \/ SPMCb_push_write_slot(TheProducer)
    \/ SPMCb_push_store_write(TheProducer)
    \/ SPMCb_pushow_load_write(TheProducer)
    \/ SPMCb_pushow_write_slot(TheProducer)
    \/ SPMCb_pushow_store_write(TheProducer)
    \/ \E c \in Consumers : SPMCb_pop_load_read(c)
    \/ \E c \in Consumers : SPMCb_pop_load_write(c)
    \/ \E c \in Consumers : SPMCb_pop_store_read(c)
    \/ \E c \in Consumers : SPMCb_pop_copy_slot(c)

SpecSPMCbThrottle == InitRing /\ [][NextSPMCbThrottle]_vars

\* overwrite mode: the producer calls push_overwrite, the readers pop_overwrite(id)
NextSPMCbOverwrite ==
    \/ SPMCb_pushow_load_write(TheProducer)
    \/ SPMCb_pushow_write_slot(TheProducer)
    \/ SPMCb_pushow_store_write(TheProducer)
    \/ \E c \in Consumers : SPMCb_popow_load_read(c)
    \/ \E c \in Consumers : SPMCb_popow_load_write(c)
    \/ \E c \in Consumers : SPMCb_popow_store_lost(c)
    \/ \E c \in Consumers : SPMCb_popow_store_read(c)
    \/ \E c \in Consumers : SPMCb_popow_copy_slot(c)

SpecSPMCbOverwrite == InitRing /\ [][NextSPMCbOverwrite]_vars

\* number of non-overwriting push calls that returned true
NumPushOk == Len(accepted) - Cardinality(overwrites)

\* while some reader's cursor is still 0 (it has consumed nothing), at most
\* BufSize non-overwriting pushes have returned true
ThrottledByIdleReader ==
    (\E r \in ReaderIds : read_positions[r] = 0) => NumPushOk <= BufSize

\* a push_overwrite call goes through: it stores the slot and then advances
\* the write index by one, whatever the reader cursors are
OverwriteAdvances(p) ==
    /\ pc[p] = "spmcb_pushow_write_slot" /\ Steps(p) =>
          pc'[p] = "spmcb_pushow_store_write"
    /\ pc[p] = "spmcb_pushow_store_write" /\ Steps(p) =>
          /\ write_pos' = write_pos + 1
          /\ pc'[p] = "idle"
          /\ ret'[p].ok

\* C18: SPMC broadcast: while a reader id never pops (its cursor stays 0) at
\* most BufSize non-overwriting push calls return true, however far the other
\* readers advance; push_overwrite is not throttled and keeps advancing the
\* write index.
C18_SPMCb_IdleReaderThrottlesPush ==
    [][ThrottledByIdleReader' /\ OverwriteAdvances(TheProducer)]_vars

\* C18 witness: reader 1 has never consumed, reader 0 has consumed everything,
\* push_overwrite has taken the write index to the capacity and the following
\* push has been refused.
C18_Witness ==
    /\ read_positions[1] = 0
    /\ read_positions[0] = write_pos
    /\ write_pos >= BufSize
    /\ overwrites # {}
    /\ NumPushOk >= 1
    /\ pc[TheProducer] = "idle"
    /\ ~ret[TheProducer].ok

\* C19: SPMC broadcast push_overwrite is infallible: whatever the reader
\* cursors are, a call stores its value in slot write mod BufSize and in no
\* other slot, then advances the write index by exactly one, and no step of it
\* changes a reader cursor.
C19_SPMCb_PushOverwriteInfallible ==
    [][Steps(TheProducer) =>
          /\ read_positions' = read_positions
          /\ pc[TheProducer] = "idle" =>
                pc'[TheProducer] = "spmcb_pushow_write_slot"
          /\ pc[TheProducer] = "spmcb_pushow_write_slot" =>
                /\ buffer' = [buffer EXCEPT ![write_pos % BufSize] = arg[TheProducer]]
                /\ pc'[TheProducer] = "spmcb_pushow_store_write"
          /\ pc[TheProducer] = "spmcb_pushow_store_write" =>
                /\ buffer[write_pos % BufSize] = arg[TheProducer]
                /\ write_pos' = write_pos + 1
                /\ pc'[TheProducer] = "idle"]_vars

\* C19 witness: push_overwrite has returned after overtaking a reader: the
\* write index is more than BufSize ahead of that reader's cursor.
C19_Witness ==
    /\ write_pos > MinReadPosition + BufSize
    /\ pc[TheProducer] = "idle"
    /\ ret[TheProducer].ok
    /\ buffer[(write_pos - 1) % BufSize] = accepted[write_pos]

\* C20: SPMC broadcast in overwrite mode: whenever pop_overwrite(id) returns
\* a value, it is the value that was pushed at the index equal to the reader's
\* cursor at the start of the call; a reader whose index has been overwritten
\* gets empty, never the newer value.
C20_SPMCb_PopOverwriteReturnsValueOfCursor ==
    \A c \in Consumers : \A i \in 1 .. Len(popped[c]) :
        /\ popped[c][i].idx < Len(accepted)
        /\ popped[c][i].val = accepted[popped[c][i].idx + 1]

\* ---------------------------------------------------------------------------
\* SPMC broadcast, overwrite mode: the cursor after a loss

\* this step of reader c is the return of a pop_overwrite call that found its
\* index overwritten
LossReturns(c) == pc[c] = "spmcb_popow_store_lost" /\ Steps(c)

\* C21 as stated: right after a pop_overwrite(id) call that signalled data loss
\* returns, write - N <= read[id] <= write, whatever the producer did meanwhile.
C21_SPMCb_LossCursorWithinWindow ==
    [][\A c \in Consumers :
          LossReturns(c) =>
              /\ write_pos' - BufSize <= read_positions'[ReaderId(c)]
              /\ read_positions'[ReaderId(c)] <= write_pos']_vars

\* C21 (amended): right after a pop_overwrite(id) call that signalled data loss
\* returns, read[id] = w - N for the write index w that the call loaded, and
\* w <= write: so read[id] <= write always, and write - N <= read[id] when
\* the producer has published nothing since the call loaded the write index.
C21_SPMCb_LossCursorIsSnapshotMinusN ==
    [][\A c \in Consumers :
          LossReturns(c) =>
              /\ read_positions'[ReaderId(c)] = current_write[c] - BufSize
              /\ current_write[c] <= write_pos'
              /\ read_positions'[ReaderId(c)] <= write_pos'
              /\ (write_pos' = current_write[c] =>
                      write_pos' - BufSize <= read_positions'[ReaderId(c)])]_vars

\* a reader that has popped nothing was moved forward by a loss, and the
\* producer has published nothing since
C21_Witness ==
    \E c \in Consumers :
        /\ pc[c] = "idle"
        /\ popped[c] = <<>>
        /\ read_positions[ReaderId(c)] > 0
        /\ read_positions[ReaderId(c)] = write_pos - BufSize

\* ---------------------------------------------------------------------------
\* SPMC broadcast, overwrite mode: a reader that starts after the producer has
\* lapped it

\* some reader has started its first pop_overwrite call
ReaderStarted ==
    \E c \in Consumers : pc[c] # "idle" \/ read_positions[ReaderId(c)] # 0

\* the producer has completed more push_overwrite calls than the ring has slots
ProducerLappedTheRing == pc[TheProducer] = "idle" /\ write_pos > BufSize

\* the producer runs push_overwrite alone; once it has completed more than
\* BufSize calls it may stop for good, and the readers then call pop_overwrite
NextSPMCbDrain ==
    \/ ~ReaderStarted /\ SPMCb_pushow_load_write(TheProducer)
    \/ ~ReaderStarted /\ SPMCb_pushow_write_slot(TheProducer)
    \/ ~ReaderStarted /\ SPMCb_pushow_store_write(TheProducer)
    \/ \E c \in Consumers : ProducerLappedTheRing /\ SPMCb_popow_load_read(c)
    \/ \E c \in Consumers : ProducerLappedTheRing /\ SPMCb_popow_load_write(c)
    \/ \E c \in Consumers : ProducerLappedTheRing /\ SPMCb_popow_store_lost(c)
    \/ \E c \in Consumers : ProducerLappedTheRing /\ SPMCb_popow_store_read(c)
    \/ \E c \in Consumers : ProducerLappedTheRing /\ SPMCb_popow_copy_slot(c)

SpecSPMCbDrain == InitRing /\ [][NextSPMCbDrain]_vars

\* the number of values reader c has been handed once the pop_overwrite call
\* it is in, if any, has returned
DrainedBy(c) ==
    Len(popped[c]) + (IF pc[c] = "spmcb_popow_copy_slot" THEN 1 ELSE 0)

\* what every state shows of a reader that started after the producer stopped
LappedReaderDrains ==
    ReaderStarted =>
        \A c \in Consumers :
            LET r == read_positions[ReaderId(c)]
                n == Len(popped[c])
            IN  /\ r = 0 => n = 0 /\ ~ret[c].ok
                /\ pc[c] \in {"spmcb_popow_store_read", "spmcb_popow_copy_slot"}
                       => current_read[c] >= write_pos - BufSize
                /\ r # 0 =>
                       /\ r >= write_pos - BufSize
                       /\ r <= write_pos
                       /\ DrainedBy(c) = r - (write_pos - BufSize)
                /\ \A i \in 1 .. n :
                       /\ popped[c][i].idx = write_pos - BufSize + i - 1
                       /\ popped[c][i].val = accepted[popped[c][i].idx + 1]

\* C22: SPMC broadcast: when the producer has completed W > N push_overwrite
\* calls before a reader with cursor 0 starts, the reader's first
\* pop_overwrite returns empty and sets its cursor to W - N, and its next N
\* pop_overwrite calls return the values pushed at W - N, ..., W - 1 in that
\* order, the one at the clamped cursor first.
C22_SPMCb_LappedReaderDrainsOldestFirst ==
    [][/\ LappedReaderDrains'
       /\ \A c \in Consumers :
              /\ (Steps(c) /\ pc'[c] = "idle" /\ read_positions[ReaderId(c)] = 0)
                     => LossReturns(c)
              /\ LossReturns(c) =>
                     /\ read_positions[ReaderId(c)] = 0
                     /\ read_positions'[ReaderId(c)] = write_pos - BufSize
                     /\ ~ret'[c].ok]_vars

\* a reader lapped by the producer has drained the whole ring, oldest first
C22_Witness ==
    \E c \in Consumers :
        /\ ProducerLappedTheRing
        /\ pc[c] = "idle"
        /\ Len(popped[c]) = BufSize
        /\ popped[c][1].idx = write_pos - BufSize
        /\ popped[c][BufSize].idx = write_pos - 1

\* ---------------------------------------------------------------------------
\* SPMC broadcast: taking a pop back

\* fetch_sub_read_pos(consumerId, 1), called by the reader after a pop(id)
\* that returned a value: one atomic read-modify-write of the cursor
SPMCb_fetch_sub_read_pos(t) ==
    /\ pc[t] = "idle"
    /\ ret[t].ok
    /\ Len(popped[t]) \notin rewinds[t]
    /\ Cardinality(rewinds[t]) < MaxRewind
    /\ read_positions' = [read_positions EXCEPT ![ReaderId(t)] = USub(@, 1)]
    /\ rewinds' = [rewinds EXCEPT ![t] = @ \cup {Len(popped[t])}]
    /\ UNCHANGED <<buffer, write_pos, read_pos, pc, current_write, current_read,
                   arg, ret, nextVal, accepted, written, popped, min_read_cache,
                   min_reader_index, scan_i, poolVars, ring, localVars, maskVars,
                   sawFull, overwrites,
                   threw>>

\* the producer calls push; each reader calls pop(id) and may take a pop back
NextSPMCbReclaim ==
    \/ SPMCb_push_load_write(TheProducer)
    \/ SPMCb_push_scan(TheProducer)
    \/ SPMCb_push_write_slot(TheProducer)
    \/ SPMCb_push_store_write(TheProducer)
    \/ \E c \in Consumers : SPMCb_pop_load_read(c)
    \/ \E c \in Consumers : SPMCb_pop_load_write(c)
    \/ \E c \in Consumers : SPMCb_pop_store_read(c)
    \/ \E c \in Consumers : SPMCb_pop_copy_slot(c)
    \/ \E c \in Consumers : SPMCb_fetch_sub_read_pos(c)

SpecSPMCbReclaim == InitRing /\ [][NextSPMCbReclaim]_vars

\* C23: SPMC broadcast reclaim law: when a reader's pop(id) returned v and the
\* reader then calls fetch_sub_read_pos(id, 1), its next pop(id) that returns
\* a value returns v again, whatever non-overwriting push calls the producer
\* interleaves.
C23_SPMCb_ReclaimReturnsSameValue ==
    \A c \in Consumers : \A k \in rewinds[c] :
        Len(popped[c]) > k => popped[c][k + 1].val = popped[c][k].val

\* ---------------------------------------------------------------------------
\* Broadcast rings: the reader cursors

BroadcastRings == {"SPMCb", "MPMCb"}

InitBroadcastRings == InitMembers /\ ring \in BroadcastRings

\* one ring of either broadcast class under every operation it offers, except
\* the accessors that set a cursor
NextBroadcastRings ==
    \/ \E p \in On("SPMCb", {TheProducer}) : SPMCb_push_load_write(p)
    \/ \E p \in On("SPMCb", {TheProducer}) : SPMCb_push_scan(p)
    \/ \E p \in On("SPMCb", {TheProducer}) : SPMCb_push_write_slot(p)
    \/ \E p \in On("SPMCb", {TheProducer}) : SPMCb_push_store_write(p)
    \/ \E p \in On("SPMCb", {TheProducer}) : SPMCb_pushow_load_write(p)
    \/ \E p \in On("SPMCb", {TheProducer}) : SPMCb_pushow_write_slot(p)
    \/ \E p \in On("SPMCb", {TheProducer}) : SPMCb_pushow_store_write(p)
    \/ \E c \in On("SPMCb", Consumers) : SPMCb_pop_load_read(c)
    \/ \E c \in On("SPMCb", Consumers) : SPMCb_pop_load_write(c)
    \/ \E c \in On("SPMCb", Consumers) : SPMCb_pop_store_read(c)
    \/ \E c \in On("SPMCb", Consumers) : SPMCb_pop_copy_slot(c)
    \/ \E c \in On("SPMCb", Consumers) : SPMCb_popow_load_read(c)
    \/ \E c \in On("SPMCb", Consumers) : SPMCb_popow_load_write(c)
    \/ \E c \in On("SPMCb", Consumers) : SPMCb_popow_store_lost(c)
    \/ \E c \in On("SPMCb", Consumers) : SPMCb_popow_store_read(c)
    \/ \E c \in On("SPMCb", Consumers) : SPMCb_popow_copy_slot(c)
    \/ \E p \in On("MPMCb", Producers) : MPMCb_push_load_write(p)
    \/ \E p \in On("MPMCb", Producers) : MPMCb_push_scan(p)
    \/ \E p \in On("MPMCb", Producers) : MPMCb_push_cas(p)
    \/ \E p \in On("MPMCb", Producers) : MPMCb_push_write_slot(p)
    \/ \E c \in On("MPMCb", Consumers) : MPMCb_pop_load_read(c)
    \/ \E c \in On("MPMCb", Consumers) : MPMCb_pop_load_write(c)
    \/ \E c \in On("MPMCb", Consumers) : MPMCb_pop_move_slot(c)
    \/ \E c \in On("MPMCb", Consumers) : MPMCb_pop_store_read(c)

SpecBroadcastRings == InitBroadcastRings /\ [][NextBroadcastRings]_vars

\* this step of reader c is the cursor store of a pop or pop_overwrite call
\* that found a value
PopStoresCursor(c) ==
    /\ Steps(c)
    /\ pc[c] \in {"spmcb_pop_store_read", "spmcb_popow_store_read",
                  "mpmcb_pop_store_read"}

\* C24: broadcast rings: across push, push_overwrite, pop(id) and
\* pop_overwrite(id) a reader cursor never decreases; only its reader changes
\* it, a pop that found a value by exactly one, the loss transition of
\* pop_overwrite forward.
C24_Broadcast_CursorsNeverDecrease ==
    [][\A c \in Consumers :
          LET r == read_positions[ReaderId(c)]
              s == read_positions'[ReaderId(c)]
          IN  /\ s >= r
              /\ s # r => PopStoresCursor(c) \/ LossReturns(c)
              /\ PopStoresCursor(c) => s = r + 1
              /\ LossReturns(c) => s > r]_vars

\* a reader has been moved forward by a loss and has popped a value as well
C24_Witness ==
    \E c \in Consumers :
        /\ pc[c] = "idle"
        /\ Len(popped[c]) >= 1
        /\ read_positions[ReaderId(c)] > Len(popped[c])

\* ---------------------------------------------------------------------------
\* Task executor: tasks that throw

\* the workers that have not returned from worker()
LiveWorkers == {w \in Workers : pc[w] # "worker_exited"}

\* this step of worker w runs the task it popped
RunsTask(w) ==
    /\ Steps(w)
    /\ pc[w] \in {"worker_popped", "worker_drain_popped"}
    /\ ret[w].ok

\* this step of worker w runs a task whose function throws
TaskThrows(w) == RunsTask(w) /\ ret[w].val \in threw' \ threw

AllRings == {"SPSC", "SPMCu", "SPMCb", "MPSC", "MPMCu", "MPMCb"}

InitAllRings == InitMembers /\ ring \in AllRings

\* no call is in progress and the ring is empty for every caller
EmptyAndQuiet ==
    /\ \A t \in Threads : pc[t] = "idle"
    /\ IF ring \in BroadcastRings
       THEN \A id \in ReaderIds : read_positions[id] = write_pos
       ELSE read_pos = write_pos

\* no call of another thread is in progress
Alone(t) == \A u \in Threads \ {t} : pc[u] = "idle"

\* producer p may take a step: it starts a push only on an empty and quiet
\* ring and runs it with no other call in progress
PushTurn(p) == IF pc[p] = "idle" THEN EmptyAndQuiet ELSE Alone(p)

\* consumer c may take a step: it runs its pop with no other call in progress
PopTurn(c) == Alone(c)

\* one ring of any class; the calls are made one after the other, a push only
\* when the ring is empty
NextRoundTrip ==
    \/ \E p \in On("SPSC", {TheProducer}) : PushTurn(p) /\ SPSC_push_load_write(p)
    \/ \E p \in On("SPSC", {TheProducer}) : PushTurn(p) /\ SPSC_push_load_read(p)
    \/ \E p \in On("SPSC", {TheProducer}) : PushTurn(p) /\ SPSC_push_write_slot(p)
    \/ \E p \in On("SPSC", {TheProducer}) : PushTurn(p) /\ SPSC_push_store_write(p)
    \/ \E c \in On("SPSC", {TheConsumer}) : PopTurn(c) /\ SPSC_pop_load_read(c)
    \/ \E c \in On("SPSC", {TheConsumer}) : PopTurn(c) /\ SPSC_pop_load_write(c)
    \/ \E c \in On("SPSC", {TheConsumer}) : PopTurn(c) /\ SPSC_pop_move_slot(c)
    \/ \E c \in On("SPSC", {TheConsumer}) : PopTurn(c) /\ SPSC_pop_store_read(c)
    \/ \E p \in On("SPMCu", {TheProducer}) : PushTurn(p) /\ SPMCu_push_load_write(p)
    \/ \E p \in On("SPMCu", {TheProducer}) : PushTurn(p) /\ SPMCu_push_load_read(p)
    \/ \E p \in On("SPMCu", {TheProducer}) : PushTurn(p) /\ SPMCu_push_write_slot(p)
    \/ \E p \in On("SPMCu", {TheProducer}) : PushTurn(p) /\ SPMCu_push_store_write(p)
    \/ \E c \in On("SPMCu", Consumers) : PopTurn(c) /\ SPMCu_pop_load_read(c)
    \/ \E c \in On("SPMCu", Consumers) : PopTurn(c) /\ SPMCu_pop_load_write(c)
    \/ \E c \in On("SPMCu", Consumers) : PopTurn(c) /\ SPMCu_pop_cas(c)
    \/ \E c \in On("SPMCu", Consumers) : PopTurn(c) /\ SPMCu_pop_move_slot(c)
    \/ \E p \in On("SPMCb", {TheProducer}) : PushTurn(p) /\ SPMCb_push_load_write(p)
    \/ \E p \in On("SPMCb", {TheProducer}) : PushTurn(p) /\ SPMCb_push_scan(p)
    \/ \E p \in On("SPMCb", {TheProducer}) : PushTurn(p) /\ SPMCb_push_write_slot(p)
    \/ \E p \in On("SPMCb", {TheProducer}) : PushTurn(p) /\ SPMCb_push_store_write(p)
    \/ \E c \in On("SPMCb", Consumers) : PopTurn(c) /\ SPMCb_pop_load_read(c)
    \/ \E c \in On("SPMCb", Consumers) : PopTurn(c) /\ SPMCb_pop_load_write(c)
    \/ \E c \in On("SPMCb", Consumers) : PopTurn(c) /\ SPMCb_pop_store_read(c)
    \/ \E c \in On("SPMCb", Consumers) : PopTurn(c) /\ SPMCb_pop_copy_slot(c)
    \/ \E p \in On("MPSC", Producers) : PushTurn(p) /\ MPSC_push_load_write(p)
    \/ \E p \in On("MPSC", Producers) : PushTurn(p) /\ MPSC_push_load_read(p)
    \/ \E p \in On("MPSC", Producers) : PushTurn(p) /\ MPSC_push_cas(p)
    \/ \E p \in On("MPSC", Producers) : PushTurn(p) /\ MPSC_push_write_slot(p)
    \/ \E c \in On("MPSC", {TheConsumer}) : PopTurn(c) /\ MPSC_pop_load_read(c)
    \/ \E c \in On("MPSC", {TheConsumer}) : PopTurn(c) /\ MPSC_pop_load_write(c)
    \/ \E c \in On("MPSC", {TheConsumer}) : PopTurn(c) /\ MPSC_pop_move_slot(c)
    \/ \E c \in On("MPSC", {TheConsumer}) : PopTurn(c) /\ MPSC_pop_store_read(c)
    \/ \E p \in On("MPMCu", Producers) : PushTurn(p) /\ MPMCu_push_load_write(p)
    \/ \E p \in On("MPMCu", Producers) : PushTurn(p) /\ MPMCu_push_load_read(p)
    \/ \E p \in On("MPMCu", Producers) : PushTurn(p) /\ MPMCu_push_cas(p)
    \/ \E p \in On("MPMCu", Producers) : PushTurn(p) /\ MPMCu_push_write_slot(p)
    \/ \E c \in On("MPMCu", Consumers) : PopTurn(c) /\ MPMCu_pop_load_read(c)
    \/ \E c \in On("MPMCu", Consumers) : PopTurn(c) /\ MPMCu_pop_load_write(c)
    \/ \E c \in On("MPMCu", Consumers) : PopTurn(c) /\ MPMCu_pop_cas(c)
    \/ \E c \in On("MPMCu", Consumers) : PopTurn(c) /\ MPMCu_pop_move_slot(c)
    \/ \E p \in On("MPMCb", Producers) : PushTurn(p) /\ MPMCb_push_load_write(p)
    \/ \E p \in On("MPMCb", Producers) : PushTurn(p) /\ MPMCb_push_scan(p)
    \/ \E p \in On("MPMCb", Producers) : PushTurn(p) /\ MPMCb_push_cas(p)
    \/ \E p \in On("MPMCb", Producers) : PushTurn(p) /\ MPMCb_push_write_slot(p)
    \/ \E c \in On("MPMCb", Consumers) : PopTurn(c) /\ MPMCb_pop_load_read(c)
    \/ \E c \in On("MPMCb", Consumers) : PopTurn(c) /\ MPMCb_pop_load_write(c)
    \/ \E c \in On("MPMCb", Consumers) : PopTurn(c) /\ MPMCb_pop_move_slot(c)
    \/ \E c \in On("MPMCb", Consumers) : PopTurn(c) /\ MPMCb_pop_store_read(c)

SpecRoundTrip == InitAllRings /\ [][NextRoundTrip]_vars

\* the last value pushed has not been handed to consumer c (broadcast) or to
\* any consumer (unicast)
Owed(c) ==
    IF ring \in BroadcastRings
    THEN Len(popped[c]) < Len(accepted)
    ELSE Cardinality(PopRefs) < Len(accepted)

SPMCb_popout_load_read(t) ==
    /\ pc[t] = "idle"
    /\ current_read' = [current_read EXCEPT ![t] = read_positions[ReaderId(t)]]
    /\ pc' = [pc EXCEPT ![t] = "spmcb_popout_load_write"]
    /\ UNCHANGED <<buffer, write_pos, read_pos, current_write, arg, ret,
                   nextVal, accepted, written, popped, bcastVars, poolVars,
                   histVars>>

\* pop(consumerId, out): acquire load of write_pos_ and the empty check
SPMCb_popout_load_write(t) ==
    /\ pc[t] = "spmcb_popout_load_write"
    /\ current_write' = [current_write EXCEPT ![t] = write_pos]
    /\ IF current_read[t] >= write_pos
       THEN /\ pc' = [pc EXCEPT ![t] = "idle"]
            /\ ret' = [ret EXCEPT ![t] = NoResult]
       ELSE /\ pc' = [pc EXCEPT ![t] = "spmcb_popout_copy_slot"]
            /\ ret' = ret
    /\ UNCHANGED <<buffer, write_pos, read_pos, current_read, arg, nextVal,
                   accepted, written, popped, bcastVars, poolVars, histVars>>

\* pop(consumerId, out): out = buffer_[current_read & MASK] copies the slot
SPMCb_popout_copy_slot(t) ==
    /\ pc[t] = "spmcb_popout_copy_slot"
    /\ arg' = [arg EXCEPT ![t] = buffer[Slot(current_read[t])]]
    /\ popped' = [popped EXCEPT ![t] =
                     Append(@, PopEntry(current_read[t], buffer[Slot(current_read[t])]))]
    /\ pc' = [pc EXCEPT ![t] = "spmcb_popout_store_read"]
    /\ UNCHANGED <<buffer, write_pos, read_pos, current_write, current_read, ret,
                   nextVal, accepted, written, bcastVars, poolVars, histVars>>

\* pop(consumerId, out): release store of read_positions_[consumerId] =
\* current_read + 1; return true
SPMCb_popout_store_read(t) ==
    /\ pc[t] = "spmcb_popout_store_read"
    /\ read_positions' = [read_positions EXCEPT ![ReaderId(t)] =
                             UAdd(current_read[t], 1)]
    /\ ret' = [ret EXCEPT ![t] = Some(arg[t])]
    /\ pc' = [pc EXCEPT ![t] = "idle"]
    /\ UNCHANGED <<buffer, write_pos, read_pos, current_write, current_read, arg,
                   nextVal, accepted, written, popped, min_read_cache,
                   min_reader_index, scan_i, poolVars, histVars>>

\* the readers that call the out-parameter form; reader 0 calls the optional form
OutFormConsumers == Consumers \ {TheConsumer}

NextSPMCbPopForms ==
    \/ SPMCb_push_load_write(TheProducer)
    \/ SPMCb_push_scan(TheProducer)
    \/ SPMCb_push_write_slot(TheProducer)
    \/ SPMCb_push_store_write(TheProducer)
    \/ SPMCb_pop_load_read(TheConsumer)
    \/ SPMCb_pop_load_write(TheConsumer)
    \/ SPMCb_pop_store_read(TheConsumer)
    \/ SPMCb_pop_copy_slot(TheConsumer)
    \/ \E c \in OutFormConsumers : SPMCb_popout_load_read(c)
    \/ \E c \in OutFormConsumers : SPMCb_popout_load_write(c)
    \/ \E c \in OutFormConsumers : SPMCb_popout_copy_slot(c)
    \/ \E c \in OutFormConsumers : SPMCb_popout_store_read(c)

SpecSPMCbPopForms == InitRing /\ [][NextSPMCbPopForms]_vars

\* the two forms deliver the same value for the same index
PopFormsDeliverTheSame ==
    \A d \in OutFormConsumers :
        \A i \in 1 .. Len(popped[TheConsumer]) : \A j \in 1 .. Len(popped[d]) :
            popped[TheConsumer][i].idx = popped[d][j].idx
                => popped[TheConsumer][i].val = popped[d][j].val

\* in both forms the slot is read before the read index is updated: while the
\* copy is pending, the cursor is still the index being copied
PopFormsReadThenUpdate ==
    \A c \in Consumers :
        pc[c] \in {"spmcb_pop_copy_slot", "spmcb_popout_copy_slot"}
            => read_positions[ReaderId(c)] = current_read[c]

\* C27: SPMC broadcast pop: the out-parameter form and the optional-returning
\* form are equivalent under every interleaving with the producer: for the
\* same index both deliver the same value, and both read the slot and update
\* the read index in the same order.
C27_SPMCb_PopFormsEquivalent ==
    PopFormsDeliverTheSame /\ PopFormsReadThenUpdate

\* ---------------------------------------------------------------------------
\* Slots that are reused while a consumer still has to read them

\* reader c has passed the empty check of pop(id) or pop_overwrite(id) and has
\* not yet copied the slot
CopyPending(c) == pc[c] \in {"spmcb_pop_copy_slot", "spmcb_popow_copy_slot"}

\* the producer's next step writes the slot that reader c has yet to copy
PushWritesPendingSlot(c) ==
    /\ pc[TheProducer] = "spmcb_push_write_slot"
    /\ Slot(current_write[TheProducer]) = Slot(current_read[c])

\* C28: SPMC broadcast pop(id) and pop_overwrite(id): the slot is copied before
\* the advanced cursor is published, so the non-overwriting push never writes
\* a slot while a reader's copy of that slot is pending.
C28_SPMCb_CopyBeforeCursorIsPublished ==
    \A c \in Consumers :
        CopyPending(c) =>
            /\ read_positions[ReaderId(c)] <= current_read[c]
            /\ ~PushWritesPendingSlot(c)

\* consumer c has claimed index i by CAS and has not yet moved the slot out,
\* and producer p is about to write index i + BufSize into the same slot
WritesClaimedSlot(p, c) ==
    /\ pc[p] \in {"spmcu_push_write_slot", "mpmcu_push_write_slot"}
    /\ pc[c] \in {"spmcu_pop_move_slot", "mpmcu_pop_move_slot"}
    /\ current_write[p] = current_read[c] + BufSize

PushReturnsFalse(p) ==
    /\ Steps(p) \/ nextVal' # nextVal
    /\ pc'[p] = "idle"
    /\ ~ret'[p].ok

\* C30: SPMC broadcast: push returns false only at the end of a scan of all K
\* reader cursors made during that call (made whenever the cached minimum
\* indicates fullness), and only if the smallest cursor the scan read is
\* exactly N behind the write index; so a push called when every reader is
\* fewer than N behind succeeds.
C30_SPMCb_PushFalseOnlyAfterScanFoundFull ==
    [][PushReturnsFalse(TheProducer) =>
          /\ pc[TheProducer] = "spmcb_push_scan"
          /\ scan_i'[TheProducer] = MaxReaders
          /\ min_read_cache' = min_reader_index'[TheProducer]
          /\ min_read_cache' # SIZE_MAX
          /\ current_write[TheProducer] - min_read_cache' = BufSize
          /\ \A id \in ReaderIds : min_read_cache' <= read_positions[id]]_vars

\* push has returned false after a scan that found the slowest reader a full
\* ring behind, although another reader had popped
C30_Witness ==
    /\ pc[TheProducer] = "idle"
    /\ ~ret[TheProducer].ok
    /\ nextVal > BufSize
    /\ scan_i[TheProducer] = MaxReaders
    /\ write_pos - min_read_cache = BufSize
    /\ \E id \in ReaderIds : read_positions[id] > min_read_cache

\* ---------------------------------------------------------------------------
\* SPMC broadcast, the revision that refreshes min_read_cache_ when the write
\* index is a multiple of UPDATE_INTERVAL

\* buffer_[i & MASK] on the ring of IntervalBufSize slots
IntervalSlot(i) == BitAnd(i, IntervalBufSize - 1)

\* some reader is a full ring behind the write index
IntervalRingFull == USub(write_pos, MinReadPosition) >= IntervalBufSize

\* push: the call with a fresh value, the relaxed load of write_pos_ and the
\* test (current_write & (UPDATE_INTERVAL - 1)) == 0
SPMCi_push_load_write(t) ==
    /\ pc[t] = "idle"
    /\ nextVal < MaxPushInterval
    /\ nextVal' = nextVal + 1
    /\ arg' = [arg EXCEPT ![t] = nextVal + 1]
    /\ current_write' = [current_write EXCEPT ![t] = write_pos]
    /\ min_reader_index' = [min_reader_index EXCEPT ![t] = SIZE_MAX]
    /\ scan_i' = [scan_i EXCEPT ![t] = 0]
    /\ sawFull' = [sawFull EXCEPT ![t] = IntervalRingFull]
    /\ pc' = [pc EXCEPT ![t] =
                 IF BitAnd(write_pos, UPDATE_INTERVAL - 1) = 0
                 THEN "spmci_push_scan" ELSE "spmci_push_check"]
    /\ UNCHANGED <<buffer, write_pos, read_pos, current_read, ret, accepted,
                   written, popped, read_positions, min_read_cache, poolVars,
                   ring, localVars, maskVars, overwrites, rewinds, threw>>

\* push: one iteration of the refresh loop (acquire load of read_positions_[i]);
\* after the last one min_read_cache_ is stored
SPMCi_push_scan(t) ==
    /\ pc[t] = "spmci_push_scan"
    /\ scan_i[t] < MaxReaders
    /\ LET reader_index == read_positions[scan_i[t]]
           fresh_min == IF reader_index < min_reader_index[t]
                        THEN reader_index ELSE min_reader_index[t]
       IN /\ min_reader_index' = [min_reader_index EXCEPT ![t] = fresh_min]
          /\ scan_i' = [scan_i EXCEPT ![t] = @ + 1]
          /\ IF scan_i[t] + 1 < MaxReaders
             THEN UNCHANGED <<min_read_cache, pc>>
             ELSE /\ min_read_cache' = fresh_min
                  /\ pc' = [pc EXCEPT ![t] = "spmci_push_check"]
    /\ UNCHANGED <<buffer, write_pos, read_pos, current_write, current_read, arg,
                   ret, nextVal, accepted, written, popped, read_positions,
                   poolVars, histVars>>

\* push: if (current_write - min_read_cache_ >= BufSize) return false
SPMCi_push_check(t) ==
    /\ pc[t] = "spmci_push_check"
    /\ IF USub(current_write[t], min_read_cache) >= IntervalBufSize
       THEN /\ pc' = [pc EXCEPT ![t] = "idle"]
            /\ ret' = [ret EXCEPT ![t] = NoResult]
       ELSE /\ pc' = [pc EXCEPT ![t] = "spmci_push_write_slot"]
            /\ ret' = ret
    /\ UNCHANGED <<buffer, write_pos, read_pos, current_write, current_read, arg,
                   nextVal, accepted, written, popped, bcastVars, poolVars,
                   histVars>>

\* push: buffer_[current_write & MASK] = u
SPMCi_push_write_slot(t) ==
    /\ pc[t] = "spmci_push_write_slot"
    /\ buffer' = [buffer EXCEPT ![IntervalSlot(current_write[t])] = arg[t]]
    /\ written' = written \cup {current_write[t]}
    /\ pc' = [pc EXCEPT ![t] = "spmci_push_store_write"]
    /\ UNCHANGED <<write_pos, read_pos, current_write, current_read, arg, ret,
                   nextVal, accepted, popped, bcastVars, poolVars, histVars>>

\* push: release store of write_pos_ = current_write + 1; return true
SPMCi_push_store_write(t) ==
    /\ pc[t] = "spmci_push_store_write"
    /\ write_pos' = UAdd(current_write[t], 1)
    /\ accepted' = Append(accepted, arg[t])
    /\ ret' = [ret EXCEPT ![t] = Some(arg[t])]
    /\ pc' = [pc EXCEPT ![t] = "idle"]
    /\ UNCHANGED <<buffer, read_pos, current_write, current_read, arg,
                   nextVal, written, popped, bcastVars, poolVars, histVars>>

\* pop(consumerId): relaxed load of read_positions_[consumerId]
SPMCi_pop_load_read(t) ==
    /\ pc[t] = "idle"
    /\ current_read' = [current_read EXCEPT ![t] = read_positions[ReaderId(t)]]
    /\ pc' = [pc EXCEPT ![t] = "spmci_pop_load_write"]
    /\ UNCHANGED <<buffer, write_pos, read_pos, current_write, arg, ret,
                   nextVal, accepted, written, popped, bcastVars, poolVars,
                   histVars>>

\* pop(consumerId): acquire load of write_pos_ and the empty check
SPMCi_pop_load_write(t) ==
    /\ pc[t] = "spmci_pop_load_write"
    /\ IF current_read[t] >= write_pos
       THEN /\ pc' = [pc EXCEPT ![t] = "idle"]
            /\ ret' = [ret EXCEPT ![t] = NoResult]
       ELSE /\ pc' = [pc EXCEPT ![t] = "spmci_pop_copy_slot"]
            /\ ret' = ret
    /\ UNCHANGED <<buffer, write_pos, read_pos, current_write, current_read, arg,
                   nextVal, accepted, written, popped, bcastVars, poolVars,
                   histVars>>

\* pop(consumerId): T value = buffer_[current_read & MASK] copies the slot
SPMCi_pop_copy_slot(t) ==
    /\ pc[t] = "spmci_pop_copy_slot"
    /\ arg' = [arg EXCEPT ![t] = buffer[IntervalSlot(current_read[t])]]
    /\ popped' = [popped EXCEPT ![t] =
                     Append(@, PopEntry(current_read[t],
                                        buffer[IntervalSlot(current_read[t])]))]
    /\ pc' = [pc EXCEPT ![t] = "spmci_pop_store_read"]
    /\ UNCHANGED <<buffer, write_pos, read_pos, current_write, current_read, ret,
                   nextVal, accepted, written, bcastVars, poolVars, histVars>>

\* pop(consumerId): release store of read_positions_[consumerId] =
\* current_read + 1; return value
SPMCi_pop_store_read(t) ==
    /\ pc[t] = "spmci_pop_store_read"
    /\ read_positions' = [read_positions EXCEPT ![ReaderId(t)] =
                             UAdd(current_read[t], 1)]
    /\ ret' = [ret EXCEPT ![t] = Some(arg[t])]
    /\ pc' = [pc EXCEPT ![t] = "idle"]
    /\ UNCHANGED <<buffer, write_pos, read_pos, current_write, current_read, arg,
                   nextVal, accepted, written, popped, min_read_cache,
                   min_reader_index, scan_i, poolVars, histVars>>

InitSPMCInterval == InitMembersOfSize(IntervalBufSize) /\ ring = "-"

NextSPMCInterval ==
    \/ SPMCi_push_load_write(TheProducer)
    \/ SPMCi_push_scan(TheProducer)
    \/ SPMCi_push_check(TheProducer)
    \/ SPMCi_push_write_slot(TheProducer)
    \/ SPMCi_push_store_write(TheProducer)
    \/ \E c \in Consumers : SPMCi_pop_load_read(c)
    \/ \E c \in Consumers : SPMCi_pop_load_write(c)
    \/ \E c \in Consumers : SPMCi_pop_copy_slot(c)
    \/ \E c \in Consumers : SPMCi_pop_store_read(c)

SpecSPMCInterval == InitSPMCInterval /\ [][NextSPMCInterval]_vars

\* C31: SPMC broadcast, UPDATE_INTERVAL revision: a push called when every
\* reader has fewer than N items outstanding does not return false: a
\* producer that retries after a full result succeeds once the readers have
\* advanced.
C31_SPMCi_RetrySucceedsOnceReadersAdvanced ==
    [][PushReturnsFalse(TheProducer) => sawFull'[TheProducer]]_vars

\* ---------------------------------------------------------------------------
\* SPMC broadcast: the cached minimum

\* C32: SPMC broadcast with cursors advanced only by pop / pop_overwrite: in
\* every reachable state min_read_cache_ is at most the smallest of the
\* reader cursors, so a push admitted on the cached minimum is fewer than N
\* ahead of the true minimum as well.
C32_SPMCb_CacheAtMostTrueMinimum ==
    ring = "SPMCb" =>
        /\ min_read_cache <= MinReadPosition
        /\ pc[TheProducer] = "spmcb_push_write_slot" =>
               current_write[TheProducer] - MinReadPosition < BufSize

\* the producer has admitted a push on a cached minimum that is out of date
C32_Witness ==
    /\ ring = "SPMCb"
    /\ pc[TheProducer] = "spmcb_push_write_slot"
    /\ scan_i[TheProducer] = 0
    /\ min_read_cache < MinReadPosition
    /\ write_pos > 0

(***************************************************************************)
(* SPSC ring, revision with local copies of the indices                    *)
(***************************************************************************)
\* push: the call with a fresh value, the acquire load of read_pos_ and the
\* full check against local_write_
SPSCl_push_load_read(t) ==
    /\ pc[t] = "idle"
    /\ nextVal < MaxPush
    /\ nextVal' = nextVal + 1
    /\ arg' = [arg EXCEPT ![t] = nextVal + 1]
    /\ current_read' = [current_read EXCEPT ![t] = read_pos]
    /\ IF local_write_ >= UAdd(read_pos, BufSize)
       THEN /\ pc' = pc
            /\ ret' = [ret EXCEPT ![t] = NoResult]
       ELSE /\ pc' = [pc EXCEPT ![t] = "spscl_push_write_slot"]
            /\ ret' = ret
    /\ UNCHANGED <<buffer, write_pos, read_pos, current_write, accepted,
                   written, popped, bcastVars, poolVars, ring, sawFull,
                   overwrites, rewinds, threw, localVars, maskVars>>

\* mutant of the slot store: local_write_ is not incremented
SPSCl_push_write_slot_NoIncrement(t) ==
    /\ pc[t] = "spscl_push_write_slot"
    /\ buffer' = [buffer EXCEPT ![Slot(local_write_)] = arg[t]]
    /\ written' = written \cup {local_write_}
    /\ pc' = [pc EXCEPT ![t] = "spscl_push_store_write"]
    /\ UNCHANGED <<write_pos, read_pos, current_write, current_read, arg, ret,
                   nextVal, accepted, popped, bcastVars, poolVars, histVars>>

\* push: buffer_[local_write_ & MASK] = u; ++local_write_
SPSCl_push_write_slot(t) ==
    /\ pc[t] = "spscl_push_write_slot"
    /\ buffer' = [buffer EXCEPT ![Slot(local_write_)] = arg[t]]
    /\ written' = written \cup {local_write_}
    /\ local_write_' = UAdd(local_write_, 1)
    /\ pc' = [pc EXCEPT ![t] = "spscl_push_store_write"]
    /\ UNCHANGED <<write_pos, read_pos, current_write, current_read, arg, ret,
                   nextVal, accepted, popped, bcastVars, poolVars, ring, maskVars, sawFull,
                   overwrites, rewinds, threw, local_read_>>

\* push: release store of local_write_ into write_pos_ and return true
SPSCl_push_store_write(t) ==
    /\ pc[t] = "spscl_push_store_write"
    /\ write_pos' = local_write_
    /\ accepted' = Append(accepted, arg[t])
    /\ ret' = [ret EXCEPT ![t] = Some(arg[t])]
    /\ pc' = [pc EXCEPT ![t] = "idle"]
    /\ UNCHANGED <<buffer, read_pos, current_write, current_read, arg,
                   nextVal, written, popped, bcastVars, poolVars, histVars>>

\* pop: the call, the acquire load of write_pos_ and the empty check against
\* local_read_
SPSCl_pop_load_write(t) ==
    /\ pc[t] = "idle"
    /\ current_write' = [current_write EXCEPT ![t] = write_pos]
    /\ IF local_read_ >= write_pos
       THEN /\ pc' = pc
            /\ ret' = [ret EXCEPT ![t] = NoResult]
       ELSE /\ pc' = [pc EXCEPT ![t] = "spscl_pop_move_slot"]
            /\ ret' = ret
    /\ UNCHANGED <<buffer, write_pos, read_pos, current_read, arg, nextVal,
                   accepted, written, popped, bcastVars, poolVars, histVars>>

\* pop: the optional is constructed from std::move(buffer_[local_read_ & MASK]);
\* ++local_read_
SPSCl_pop_move_slot(t) ==
    /\ pc[t] = "spscl_pop_move_slot"
    /\ arg' = [arg EXCEPT ![t] = buffer[Slot(local_read_)]]
    /\ buffer' = [buffer EXCEPT ![Slot(local_read_)] = MovedFrom(t, @)]
    /\ popped' = [popped EXCEPT ![t] =
                     Append(@, PopEntry(local_read_, buffer[Slot(local_read_)]))]
    /\ local_read_' = UAdd(local_read_, 1)
    /\ pc' = [pc EXCEPT ![t] = "spscl_pop_store_read"]
    /\ UNCHANGED <<write_pos, read_pos, current_write, current_read, ret,
                   nextVal, accepted, written, bcastVars, poolVars, ring, maskVars, sawFull,
                   overwrites, rewinds, threw, local_write_>>

\* pop: release store of local_read_ into read_pos_ and return the value
SPSCl_pop_store_read(t) ==
    /\ pc[t] = "spscl_pop_store_read"
    /\ read_pos' = local_read_
    /\ ret' = [ret EXCEPT ![t] = Some(arg[t])]
    /\ pc' = [pc EXCEPT ![t] = "idle"]
    /\ UNCHANGED <<buffer, write_pos, current_write, current_read, arg,
                   nextVal, accepted, written, popped, bcastVars, poolVars,
                   histVars>>

NextSPSCLocal ==
    \/ SPSCl_push_load_read(TheProducer)
    \/ SPSCl_push_write_slot(TheProducer)
    \/ SPSCl_push_store_write(TheProducer)
    \/ SPSCl_pop_load_write(TheConsumer)
    \/ SPSCl_pop_move_slot(TheConsumer)
    \/ SPSCl_pop_store_read(TheConsumer)

SpecSPSCLocal == InitRing /\ [][NextSPSCLocal]_vars

\* between operations each side's local copy equals the shared index
LocalViewsInSync ==
    /\ pc[TheProducer] = "idle" => local_write_ = write_pos
    /\ pc[TheConsumer] = "idle" => local_read_ = read_pos

\* a push of the local-index revision does what the plain push does on the
\* same shared indices: false, changing nothing, exactly when write - read >=
\* BufSize at the load of the read index; otherwise the value goes into slot
\* write mod BufSize, the write index advances by one and the call returns true
SPSCl_PushAsPlain(p) ==
    /\ pc[p] = "idle" /\ nextVal' # nextVal =>
          ((/\ pc'[p] = "idle"
            /\ ~ret'[p].ok
            /\ write_pos' = write_pos
            /\ buffer' = buffer)
           <=> write_pos - read_pos >= BufSize)
    /\ pc[p] = "spscl_push_write_slot" /\ Steps(p) =>
          buffer' = [buffer EXCEPT ![write_pos % BufSize] = arg[p]]
    /\ pc[p] = "spscl_push_store_write" /\ Steps(p) =>
          /\ buffer[write_pos % BufSize] = arg[p]
          /\ write_pos' = write_pos + 1
          /\ pc'[p] = "idle"
          /\ ret'[p] = Some(arg[p])

\* a pop of the local-index revision does what the plain pop does on the same
\* shared indices: empty, changing nothing, exactly when read = write at the
\* load of the write index; otherwise it returns the value of slot read mod
\* BufSize, pushed at index read, and the read index advances by one
SPSCl_PopAsPlain(c) ==
    /\ pc[c] = "idle" /\ Steps(c) => read_pos # write_pos
    /\ pc[c] = "idle" /\ pc'[c] = "idle" /\ <<ret[c], current_write[c]>>' #
                                           <<ret[c], current_write[c]>> =>
          /\ read_pos = write_pos
          /\ ~ret'[c].ok
          /\ read_pos' = read_pos
          /\ buffer' = buffer
    /\ pc[c] = "spscl_pop_store_read" /\ Steps(c) =>
          /\ ret'[c] = Some(buffer[read_pos % BufSize])
          /\ ret'[c].val = accepted[read_pos + 1]
          /\ read_pos' = read_pos + 1
          /\ pc'[c] = "idle"

\* C33: the SPSC revision with local copies of the indices behaves as the
\* plain SPSC does: every push and pop takes the decision and returns the
\* result the plain ring's code takes on the same shared indices, the popped
\* values are a prefix of the accepted ones, and local_write_ = write_pos_ and
\* local_read_ = read_pos_ whenever the owning side is between operations.
C33_SPSCLocal_EquivalentToPlain ==
    [][/\ LocalViewsInSync'
       /\ SPSCl_PushAsPlain(TheProducer)
       /\ SPSCl_PopAsPlain(TheConsumer)
       /\ IsPrefix(PoppedVals(TheConsumer), accepted)']_vars

\* C33 witness: both sides are between operations after the ring wrapped and
\* the consumer has popped from a reused slot with its local copy in step.
C33_Witness ==
    /\ pc[TheProducer] = "idle"
    /\ pc[TheConsumer] = "idle"
    /\ local_write_ > BufSize
    /\ local_read_ > BufSize
    /\ ret[TheConsumer].ok

\* ---------------------------------------------------------------------------
\* SPMC broadcast, overwrite mode: the reader exactly one ring behind

\* the pop_overwrite call of reader c loaded write = read[id] + BufSize
AtBoundary(c) == current_write[c] = current_read[c] + BufSize

\* C34: SPMC broadcast pop_overwrite boundary: a call that finds write =
\* read[id] + BufSize exactly does not signal loss, returns the value pushed at
\* index read[id] and advances the cursor by one; loss is signalled only when
\* write > read[id] + BufSize, and then the cursor becomes exactly write - BufSize.
C34_SPMCb_PopOverwriteBoundary ==
    [][\A c \in Consumers :
          /\ pc[c] = "spmcb_popow_load_write" /\ Steps(c) =>
                /\ (pc'[c] = "spmcb_popow_store_lost"
                        <=> write_pos > current_read[c] + BufSize)
                /\ (write_pos = current_read[c] + BufSize
                        => pc'[c] = "spmcb_popow_store_read")
          /\ LossReturns(c) =>
                /\ read_positions'[ReaderId(c)] = current_write[c] - BufSize
                /\ ~ret'[c].ok
          /\ pc[c] = "spmcb_popow_store_read" /\ Steps(c) /\ AtBoundary(c) =>
                read_positions'[ReaderId(c)] = read_positions[ReaderId(c)] + 1
          /\ pc[c] = "spmcb_popow_copy_slot" /\ Steps(c) /\ AtBoundary(c) =>
                ret'[c] = Some(accepted[current_read[c] + 1])]_vars

\* ---------------------------------------------------------------------------
\* SPMC broadcast, overwrite mode: the call after a loss

\* the last pop_overwrite call of reader c signalled loss: it returned empty
\* with its cursor clamped to the write index it loaded minus BufSize
LastCallSignalledLoss(c) ==
    /\ ~ret[c].ok
    /\ current_write[c] = read_positions[ReaderId(c)] + BufSize

\* this step of reader c is the load of the write index in the call that
\* follows a call that signalled loss
DecidesAfterLoss(c) ==
    pc[c] = "spmcb_popow_load_write" /\ Steps(c) /\ LastCallSignalledLoss(c)

\* C35 as stated: the pop_overwrite(id) call right after one that signalled
\* loss returns a value rather than signalling loss again.
C35_SPMCb_CallAfterLossReturnsValue ==
    [][\A c \in Consumers :
          DecidesAfterLoss(c) => pc'[c] = "spmcb_popow_store_read"]_vars

\* C35 (amended): the pop_overwrite(id) call right after one that signalled
\* loss returns a value when the write index it loads is the one the loss call
\* loaded, and signals loss again when the producer has published a further
\* push_overwrite in between.
C35_SPMCb_CallAfterLossReturnsValueIfNoNewPush ==
    [][\A c \in Consumers :
          DecidesAfterLoss(c) =>
              /\ write_pos >= current_write[c]
              /\ (pc'[c] = "spmcb_popow_store_read" <=> write_pos = current_write[c])
              /\ (pc'[c] = "spmcb_popow_store_lost" <=> write_pos > current_write[c])]_vars

\* C35 witness: a reader's first value came from the call right after a loss:
\* its index is the write index the loss call loaded minus BufSize, and that
\* write index is the one the returning call loaded too.
C35_Witness ==
    \E c \in Consumers :
        /\ pc[c] = "idle"
        /\ ret[c].ok
        /\ Len(popped[c]) = 1
        /\ popped[c][1].idx > 0
        /\ popped[c][1].idx = current_write[c] - BufSize

\* ---------------------------------------------------------------------------
\* SPMC broadcast, overwrite mode: the two ways pop_overwrite returns empty

\* this step of reader c is the return of a pop_overwrite call that found
\* nothing to read
EmptyReturns(c) ==
    pc[c] = "spmcb_popow_load_write" /\ Steps(c) /\ pc'[c] = "idle"

\* the cursor of reader c is stored by c's own pop_overwrite call only, so the
\* value that get_read_pos(id) gave before the call is still there until then
OnlyOwnCallMovesCursor(c) ==
    read_positions'[ReaderId(c)] # read_positions[ReaderId(c)] =>
        pc[c] \in {"spmcb_popow_store_lost", "spmcb_popow_store_read"} /\ Steps(c)

\* C36: SPMC broadcast pop_overwrite(id) returning empty: on ordinary empty
\* (read[id] = write) the cursor is what it was before the call, and on a
\* data-loss transition the cursor ends strictly greater than it was before the
\* call; so the values of get_read_pos(id) before and after tell the two apart.
C36_SPMCb_EmptyKindsDifferInCursor ==
    [][\A c \in Consumers :
          /\ OnlyOwnCallMovesCursor(c)
          /\ EmptyReturns(c) =>
                /\ ~ret'[c].ok
                /\ current_read[c] = write_pos
                /\ read_positions[ReaderId(c)] = current_read[c]
                /\ read_positions'[ReaderId(c)] = current_read[c]
          /\ LossReturns(c) =>
                /\ ~ret'[c].ok
                /\ read_positions'[ReaderId(c)] > read_positions[ReaderId(c)]]_vars

\* C36 witness: one reader's last call returned empty after a loss, with its
\* cursor moved, and another reader's last call returned empty on an empty
\* ring after it had popped, with its cursor where it was.
C36_Witness ==
    \E c, d \in Consumers :
        /\ c # d
        /\ pc[c] = "idle" /\ pc[d] = "idle"
        /\ LastCallSignalledLoss(c)
        /\ read_positions[ReaderId(c)] > 0
        /\ ~ret[d].ok
        /\ Len(popped[d]) > 0
        /\ current_write[d] = read_positions[ReaderId(d)]

(***************************************************************************)
(* Every ring class, calls that return false or empty                      *)
(***************************************************************************)
NextEveryRing ==
    \/ NextUnicastRings
    \/ NextBroadcastRings

SpecEveryRing == InitAllRings /\ [][NextEveryRing]_vars

\* the write index, every read index and every slot
RingContents == <<write_pos, read_pos, read_positions, buffer>>

\* positions of a call from which it has no way left to return false or empty
PastLastRefusal ==
    {"spsc_push_write_slot", "spsc_push_store_write",
     "spsc_pop_move_slot", "spsc_pop_store_read",
     "mpsc_push_write_slot", "mpsc_pop_move_slot", "mpsc_pop_store_read",
     "spmcu_push_write_slot", "spmcu_push_store_write", "spmcu_pop_move_slot",
     "mpmcu_push_write_slot", "mpmcu_pop_move_slot",
     "spmcb_push_write_slot", "spmcb_push_store_write",
     "spmcb_pushow_write_slot", "spmcb_pushow_store_write",
     "spmcb_pop_store_read", "spmcb_pop_copy_slot",
     "spmcb_popow_store_read", "spmcb_popow_copy_slot",
     "mpmcb_push_write_slot", "mpmcb_pop_move_slot", "mpmcb_pop_store_read"}

\* this step of thread t returns true or a value
ReturnsResult(t) == pc'[t] = "idle" /\ ret'[t].ok

\* a step that changes an index or a slot belongs to a call that will return
\* true or a value, or is the cursor store of a pop_overwrite that lost data
ChangeOnlyInAcceptedCall ==
    RingContents' # RingContents =>
        \E t \in Threads :
            /\ Steps(t)
            /\ \/ pc'[t] \in PastLastRefusal
               \/ ReturnsResult(t)
               \/ pc[t] = "spmcb_popow_store_lost"

\* from such a position a call goes on to return true or a value
AcceptedCallReturnsResult(t) ==
    pc[t] \in PastLastRefusal /\ Steps(t) =>
        pc'[t] \in PastLastRefusal \/ ReturnsResult(t)

\* the step at which a call returns false or empty changes nothing, unless it
\* is the data-loss transition, which moves the caller's own cursor forward and
\* nothing else
RefusalChangesNothing(t) ==
    Steps(t) /\ pc'[t] = "idle" /\ ~ret'[t].ok =>
        IF pc[t] = "spmcb_popow_store_lost"
        THEN /\ <<write_pos, read_pos, buffer>>' = <<write_pos, read_pos, buffer>>
             /\ \A r \in ReaderIds \ {ReaderId(t)} :
                    read_positions'[r] = read_positions[r]
             /\ read_positions'[ReaderId(t)] > read_positions[ReaderId(t)]
        ELSE RingContents' = RingContents

\* C37: in every ring class a push that returns false and a pop / pop(id) that
\* returns empty leave the write index, every read index and every slot as
\* they were: only a call that goes on to return true or a value changes any
\* of them; returning empty changes a cursor only in the data-loss transition
\* of pop_overwrite.
C37_EveryRing_RefusedCallChangesNothing ==
    [][/\ ChangeOnlyInAcceptedCall
       /\ \A t \in Threads :
             /\ AcceptedCallReturnsResult(t)
             /\ RefusalChangesNothing(t)]_vars

\* C37 witness: a multi-producer ring is full, a push on it has just been
\* refused and the slots still hold the accepted values.
C37_Witness ==
    /\ ring = "MPMCu"
    /\ write_pos = read_pos + BufSize
    /\ \E p \in Producers :
          /\ pc[p] = "idle"
          /\ ~ret[p].ok
          /\ arg[p] = nextVal
          /\ nextVal > Len(accepted)
    /\ \A i \in read_pos .. (write_pos - 1) : buffer[Slot(i)] = accepted[i + 1]

(***************************************************************************)
(* The rings with compare-exchange retry loops                             *)
(***************************************************************************)
CasRings == {"MPSC", "SPMCu", "MPMCu"}

InitCasRings == InitMembers /\ ring \in CasRings

\* finitely many calls: the producers make NumProducers push calls in all, the
\* consumers pop as often as they like
BurstOfCalls == nextVal' <= NumProducers

NextCasRings ==
    \/ \E p \in On("MPSC", Producers) : MPSC_push_load_write(p) /\ BurstOfCalls
    \/ \E p \in On("MPSC", Producers) : MPSC_push_load_read(p)
    \/ \E p \in On("MPSC", Producers) : MPSC_push_cas(p)
    \/ \E p \in On("MPSC", Producers) : MPSC_push_write_slot(p)
    \/ \E c \in On("MPSC", {TheConsumer}) : MPSC_pop_load_read(c)
    \/ \E c \in On("MPSC", {TheConsumer}) : MPSC_pop_load_write(c)
    \/ \E c \in On("MPSC", {TheConsumer}) : MPSC_pop_move_slot(c)
    \/ \E c \in On("MPSC", {TheConsumer}) : MPSC_pop_store_read(c)
    \/ \E p \in On("SPMCu", {TheProducer}) : SPMCu_push_load_write(p) /\ BurstOfCalls
    \/ \E p \in On("SPMCu", {TheProducer}) : SPMCu_push_load_read(p)
    \/ \E p \in On("SPMCu", {TheProducer}) : SPMCu_push_write_slot(p)
    \/ \E p \in On("SPMCu", {TheProducer}) : SPMCu_push_store_write(p)
    \/ \E c \in On("SPMCu", Consumers) : SPMCu_pop_load_read(c)
    \/ \E c \in On("SPMCu", Consumers) : SPMCu_pop_load_write(c)
    \/ \E c \in On("SPMCu", Consumers) : SPMCu_pop_cas(c)
    \/ \E c \in On("SPMCu", Consumers) : SPMCu_pop_move_slot(c)
    \/ \E p \in On("MPMCu", Producers) : MPMCu_push_load_write(p) /\ BurstOfCalls
    \/ \E p \in On("MPMCu", Producers) : MPMCu_push_load_read(p)
    \/ \E p \in On("MPMCu", Producers) : MPMCu_push_cas(p)
    \/ \E p \in On("MPMCu", Producers) : MPMCu_push_write_slot(p)
    \/ \E c \in On("MPMCu", Consumers) : MPMCu_pop_load_read(c)
    \/ \E c \in On("MPMCu", Consumers) : MPMCu_pop_load_write(c)
    \/ \E c \in On("MPMCu", Consumers) : MPMCu_pop_cas(c)
    \/ \E c \in On("MPMCu", Consumers) : MPMCu_pop_move_slot(c)

\* the next step of a call that thread t is in
RunsOn(t) == NextCasRings /\ pc[t] # "idle" /\ pc'[t] # pc[t]

\* the threads are scheduled by the operating system: a thread inside a call
\* is not suspended forever, and yield() returns
SpecCasRingsFair ==
    /\ InitCasRings
    /\ [][NextCasRings]_vars
    /\ \A t \in Producers \cup Consumers : WF_vars(RunsOn(t))

PushCasPcs == {"mpsc_push_cas", "mpmcu_push_cas"}
PopCasPcs == {"spmcu_pop_cas", "mpmcu_pop_cas"}
RetryPcs == {"mpsc_push_loop", "mpmcu_push_loop", "spmcu_pop_loop", "mpmcu_pop_loop"}

\* thread t executes its compare-exchange in this step, and it fails / succeeds
CasFails(t) == pc[t] \in PushCasPcs \cup PopCasPcs /\ Steps(t) /\ pc'[t] \in RetryPcs
CasSucceeds(t) == pc[t] \in PushCasPcs \cup PopCasPcs /\ Steps(t) /\ pc'[t] \notin RetryPcs

\* the index thread t's compare-exchange acts on, and the value t loaded from it
CasIndex(t) == IF pc[t] \in PushCasPcs THEN write_pos ELSE read_pos
CasExpected(t) == IF pc[t] \in PushCasPcs THEN current_write[t] ELSE current_read[t]
\* the same index after the step
CasIndexAfter(t) == IF pc[t] \in PushCasPcs THEN write_pos' ELSE read_pos'

\* thread t has loaded the index its compare-exchange will act on
HoldsLoadedWrite(t) ==
    pc[t] \in {"mpsc_push_load_read", "mpmcu_push_load_read"} \cup PushCasPcs
HoldsLoadedRead(t) ==
    pc[t] \in {"spmcu_pop_load_write", "mpmcu_pop_load_write"} \cup PopCasPcs

\* the compare-exchange fails only on a mismatch, and the index a thread has
\* loaded differs from the index only after another thread's compare-exchange
\* on it succeeded
CasFailsOnlyBehindAnotherCas ==
    \A t \in Producers \cup Consumers :
        /\ CasFails(t) =>
              CasIndex(t) # CasExpected(t) /\ CasIndexAfter(t) = CasIndex(t)
        /\ CasSucceeds(t) =>
              CasIndex(t) = CasExpected(t) /\ CasIndexAfter(t) = CasExpected(t) + 1
        /\ Steps(t) /\ HoldsLoadedWrite(t)' /\ ~HoldsLoadedWrite(t) =>
              current_write'[t] = write_pos
        /\ Steps(t) /\ HoldsLoadedRead(t)' /\ ~HoldsLoadedRead(t) =>
              current_read'[t] = read_pos
        /\ HoldsLoadedWrite(t) /\ write_pos' # write_pos =>
              \E u \in Producers : pc[u] \in PushCasPcs /\ CasSucceeds(u)
        /\ HoldsLoadedRead(t) /\ read_pos' # read_pos =>
              \E u \in Consumers : pc[u] \in PopCasPcs /\ CasSucceeds(u)

\* C38: in the compare-exchange retry loops (MPSC push, SPMC unicast pop, MPMC
\* push and pop) an iteration fails its compare-exchange only if another
\* thread's compare-exchange on the same index succeeded after this thread
\* loaded it, so some operation completes whenever one retries; and with
\* finitely many calls every call returns.
C38_CasLoops_FailOnlyBehindSuccessAndTerminate ==
    /\ [][CasFailsOnlyBehindAnotherCas]_vars
    /\ \A t \in Producers \cup Consumers : (pc[t] # "idle") ~> (pc[t] = "idle")

\* C38 witness: a producer is back at the top of its loop after its
\* compare-exchange failed, behind the other producer's claim of the index.
C38_Witness ==
    /\ ring = "MPMCu"
    /\ \E p, q \in Producers :
          /\ p # q
          /\ pc[p] = "mpmcu_push_loop"
          /\ pc[q] = "mpmcu_push_write_slot"
          /\ current_write[p] = current_write[q] + 1

(***************************************************************************)
(* Index wrapping by bitmask                                               *)
(***************************************************************************)
\* the capacities the classes admit: BufSize >= 2 and (BufSize & (BufSize - 1)) == 0
Capacities == {n \in 2 .. MaxCapacity : BitAnd(n, n - 1) = 0}

\* N of the ring under test: the size of std::array<T, BufSize>
Capacity == Cardinality(DOMAIN buffer)

\* mutant of the mask: the capacity itself in place of N - 1
MaskedIndex_MaskIsCapacity(i) == BitAnd(i, Capacity)

\* i & mask, mask = N - 1
MaskedIndex(i) == BitAnd(i, Capacity - 1)

\* a ring of any admitted capacity
InitMaskTest == \E n \in Capacities : InitMembersOfSize(n) /\ ring = "-"

\* one round of the test's loop: ++i, then i & mask is computed
MaskTest_next_index ==
    /\ test_i' = UAdd(test_i, 1)
    /\ test_masked' = MaskedIndex(test_i')
    /\ UNCHANGED <<buffer, write_pos, read_pos, pc, current_write, current_read,
                   arg, ret, nextVal, accepted, written, popped, bcastVars,
                   poolVars, ring, sawFull, overwrites, rewinds, threw, localVars>>

NextMaskTest == MaskTest_next_index

SpecMaskTest == InitMaskTest /\ [][NextMaskTest]_vars

\* C39: for every power-of-two capacity N and every index i, i & (N - 1)
\* equals i mod N, the next index addresses the next slot cyclically, and the
\* indices i and i + N address the same slot.
C39_Mask_EqualsModulo ==
    /\ test_masked = test_i % Capacity
    /\ MaskedIndex(test_i) = test_masked
    /\ MaskedIndex(UAdd(test_i, 1)) = (test_masked + 1) % Capacity
    /\ MaskedIndex(UAdd(test_i, Capacity)) = test_masked

\* C39 witness: the loop has gone round a ring of four slots more than once
\* and is at its last slot.
C39_Witness ==
    /\ Capacity = 4
    /\ test_i = 2 * Capacity + 3
    /\ test_masked = 3

(***************************************************************************)
(* Task executor: the capacity of the task ring                            *)
(***************************************************************************)
\* threadpool<PoolSize, QueueSize>: the second template argument; any value
\* other than PoolSize will do, the tests use threadpool<4, 1024>
QueueSize == 2 * PoolSize

\* submitted tasks waiting to be claimed by a worker
TasksWaiting == USub(write_pos, read_pos)

\* this step of submitter t is a tasks_.push that returns false, after which
\* submit yields and pushes again
SubmitRetries(t) ==
    pc[t] = "mpmcu_push_load_read" /\ pc'[t] = "submit_pushed" /\ ~ret'[t].ok

\* C40: task executor threadpool<PoolSize, QueueSize>: the task ring holds up
\* to QueueSize pending tasks: submit pushes again only when QueueSize
\* submitted tasks are waiting to be claimed by a worker.
C40_Pool_SubmitRetriesOnlyAtQueueSize ==
    [][\A t \in Submitters : SubmitRetries(t) => TasksWaiting >= QueueSize]_vars

====
